---- MODULE Spec2Model ----
(***************************************************************************)
(* A model of the ProtoGen protocol description compiler:                  *)
(*   ProtocolStructure::parse / parseChildren   (protocolstructure.cpp)    *)
(*   ProtocolPacket::parse and the packet function emitters                *)
(*                                               (protocolpacket.cpp)      *)
(* An XML element is modelled by the attributes the code reads from it;    *)
(* the children of the element are handed to the parser one at a time.     *)
(* Emitted C text is modelled as a sequence of functions, each a sequence  *)
(* of tokens, one token per source.write of a statement or per snippet     *)
(* returned by a child.                                                    *)
(***************************************************************************)
EXTENDS Integers, Sequences, FiniteSets, TLC

\* Largest number of children of one element
MaxChildren == 3

\* The name of the i-th child of an element
FieldNames == <<"a", "b", "c", "d", "e", "f">>

\* The names a variableArray or dependsOn attribute can refer to
RefNames == {"a", "b"}

VARIABLES
    pc,             \* position inside ProtocolStructure::parse / ProtocolPacket::parse
    e,              \* the attributes of the DOM element being parsed
    xml,            \* the children of the element, as constructed, in document order
    array,          \* Encodable::array of the structure or packet
    variableArray,  \* Encodable::variableArray
    dependsOn,      \* Encodable::dependsOn
    encodables,     \* ProtocolStructure::encodables
    prevEncodable,  \* index in encodables of the local prevEncodable, 0 for NULL
    bitfields,      \* ProtocolStructure::bitfields
    needsIterator,  \* ProtocolStructure::needsIterator
    defaults,       \* ProtocolStructure::defaults
    encodedLength,  \* Encodable::encodedLength
    diag,           \* the lines printed on std::cout, as <<field, message>>
    header,         \* prototypes in the buffer of the header writer
    source,         \* functions in the buffer of the source writer
    name,           \* Encodable::name, a sequence of characters
    id,             \* ProtocolPacket::id, a sequence of characters
    headerFile,     \* the header file on disk
    sourceFile,     \* the source file on disk
    enumList,       \* ProtocolStructure::enumList, the enumerations by name
    support,        \* Encodable::support, as the constructor set it
    reused,         \* TRUE when this ProtocolPacket object has parsed a packet before
    epc,            \* where the EnumCreator is: new, parsed, replaced, reparsed
    values,         \* the Value children of the Enum element, as [name, value]
    nameList,       \* EnumCreator::nameList
    valueList,      \* EnumCreator::valueList
    commentList,    \* EnumCreator::commentList
    numberList,     \* EnumCreator::numberList
    minbitwidth,    \* EnumCreator::minbitwidth
    output,         \* EnumCreator::output, the lines of the declaration
    text,           \* the argument of replaceEnumerationNameWithValue
    replaced,       \* the string replaceEnumerationNameWithValue returns
    arguments,      \* main: the command line after the program name
    disk,           \* main: what opening and reading the protocol file gives
    opened,         \* main: the file names passed to QFile::open
    parsed,         \* main: the file names whose document went to parser.parse
    options,        \* main: the flags and the output path found in the arguments
    Return          \* main: the exit code, -1 while main has not returned

\* The state of the structure or packet parser
packetVars == <<pc, e, xml, array, variableArray, dependsOn, encodables, prevEncodable,
                bitfields, needsIterator, defaults, encodedLength, diag, header, source,
                name, id, headerFile, sourceFile, enumList, support, reused>>

\* The state of an EnumCreator
enumVars == <<epc, values, nameList, valueList, commentList, numberList, minbitwidth,
              output, text, replaced>>

\* The state of main
mainVars == <<arguments, disk, opened, parsed, options, Return>>

vars == <<packetVars, enumVars, mainVars>>

-----------------------------------------------------------------------------
(* QString: a string the code looks into is a sequence of characters.       *)

LowerCase == <<"a", "b", "c", "d", "e", "f", "g", "h", "i", "j", "k", "l", "m",
               "n", "o", "p", "q", "r", "s", "t", "u", "v", "w", "x", "y", "z">>
UpperCase == <<"A", "B", "C", "D", "E", "F", "G", "H", "I", "J", "K", "L", "M",
               "N", "O", "P", "Q", "R", "S", "T", "U", "V", "W", "X", "Y", "Z">>

IsLower(ch) == \E k \in DOMAIN LowerCase : LowerCase[k] = ch
IsUpper(ch) == \E k \in DOMAIN UpperCase : UpperCase[k] = ch

\* QChar::toUpper
Upper(ch) == IF IsLower(ch) THEN UpperCase[CHOOSE k \in DOMAIN LowerCase : LowerCase[k] = ch]
             ELSE ch

\* QString::toUpper
ToUpper(str) == [k \in 1..Len(str) |-> Upper(str[k])]

-----------------------------------------------------------------------------
(* EncodedLength: the three length expressions, evaluated as numbers.       *)

ZeroLength == [minEncodedLength |-> 0, maxEncodedLength |-> 0, nonDefaultEncodedLength |-> 0]

\* The number an array attribute stands for ("" is no array)
ArrayCount(a) == IF a = "" THEN 1 ELSE IF a = "2" THEN 2 ELSE 3

\* EncodedLength::addToLength(rightLength, array, isVariable, isDependsOn)
AddToLength(left, right, arr, isVariable, isDependsOn) ==
    [maxEncodedLength |-> left.maxEncodedLength + ArrayCount(arr) * right.maxEncodedLength,
     nonDefaultEncodedLength |->
         left.nonDefaultEncodedLength + ArrayCount(arr) * right.nonDefaultEncodedLength,
     minEncodedLength |->
         IF ~isVariable /\ ~isDependsOn
         THEN left.minEncodedLength + ArrayCount(arr) * right.minEncodedLength
         ELSE left.minEncodedLength]

\* The length of one element of a child: a field that is not encoded has no
\* length, a default field adds nothing to the minimum and non default length
ElementLength(notEncoded, defaultValue) ==
    IF notEncoded THEN ZeroLength
    ELSE IF defaultValue # "" THEN [minEncodedLength |-> 0, maxEncodedLength |-> 1,
                                    nonDefaultEncodedLength |-> 0]
    ELSE [minEncodedLength |-> 1, maxEncodedLength |-> 1, nonDefaultEncodedLength |-> 1]

-----------------------------------------------------------------------------
(* Encodable: the children generateEncodable constructs.                    *)

\* A child as left by its constructor; its encodedLength is computed by its
\* own parse from its own array, variableArray and dependsOn
Child(prim, notEncoded, notInMemory, arr, bitfield, defaultValue, varArr, depOn) ==
    [name |-> "", prim |-> prim, notEncoded |-> notEncoded, notInMemory |-> notInMemory,
     array |-> arr, bitfield |-> bitfield, defaultValue |-> defaultValue,
     variableArray |-> varArr, dependsOn |-> depOn, terminatesBitfield |-> FALSE,
     encodedBits |-> IF bitfield THEN 3 ELSE 0, startingBitCount |-> 0,
     encodables |-> <<>>,
     encodedLength |-> AddToLength(ZeroLength, ElementLength(notEncoded, defaultValue),
                                   arr, varArr # "", depOn # "")]

\* A bitfield of the given number of bits
Bitfield(bits) ==
    [Child(TRUE, FALSE, FALSE, "", TRUE, "", "", "") EXCEPT !.encodedBits = bits]

\* The bit count behind a bitfield: the bit it starts at and its bits
getEndingBitCount(c) == c.startingBitCount + c.encodedBits

setStartingBitCount(c, count) == [c EXCEPT !.startingBitCount = count]

isPrimitive(c) == c.prim
isArray(c) == c.array # ""
isNotEncoded(c) == c.notEncoded
isNotInMemory(c) == c.notInMemory
isBitfield(c) == c.bitfield
isDefault(c) == c.defaultValue # ""
usesDefaults(c) == c.prim /\ c.defaultValue # ""
usesBitfields(c) == c.bitfield
usesIterator(c) == c.array # ""
clearDefaults(c) == [c EXCEPT !.defaultValue = ""]

\* The children without a reference to a sibling
PlainChildren ==
    { Child(TRUE, FALSE, FALSE, "", FALSE, "", "", ""),      \* field
      Child(TRUE, FALSE, FALSE, "", FALSE, "0", "", ""),     \* field with a default
      Child(TRUE, FALSE, FALSE, "2", FALSE, "", "", ""),     \* array of fields
      Child(TRUE, TRUE, FALSE, "", FALSE, "", "", ""),       \* field that is not encoded
      Child(TRUE, FALSE, TRUE, "", FALSE, "", "", ""),       \* field that is not in memory
      Child(TRUE, FALSE, FALSE, "", TRUE, "", "", ""),       \* bitfield
      Child(FALSE, FALSE, FALSE, "", FALSE, "", "", ""),     \* structure
      Child(FALSE, FALSE, FALSE, "2", FALSE, "", "", "") }   \* array of structures

\* The children that name a sibling in dependsOn
DependsOnChildren ==
    { Child(TRUE, FALSE, FALSE, "", FALSE, "", "", r) : r \in RefNames } \cup
    { Child(TRUE, FALSE, FALSE, "", TRUE, "", "", r) : r \in RefNames } \cup
    { Child(FALSE, FALSE, FALSE, "", FALSE, "", "", r) : r \in RefNames }

\* The children that name a sibling in variableArray
VariableArrayChildren ==
    { Child(TRUE, FALSE, FALSE, "2", FALSE, "", r, "") : r \in RefNames } \cup
    { Child(FALSE, FALSE, FALSE, "2", FALSE, "", r, "") : r \in RefNames }

StructureChildren == PlainChildren \cup DependsOnChildren \cup VariableArrayChildren

-----------------------------------------------------------------------------
(* ProtocolStructure::parseChildren                                         *)

\* The parser state the loop of parseChildren works on
ParserState ==
    [encodables |-> encodables, prevEncodable |-> prevEncodable, bitfields |-> bitfields,
     needsIterator |-> needsIterator, defaults |-> defaults, diag |-> diag]

\* The loop over the earlier siblings: the index the loop stops at, which is
\* Len(encs) + 1 when no sibling satisfies the reference
RECURSIVE FindPrev(_, _, _)
FindPrev(encs, ref, prev) ==
    IF prev > Len(encs) THEN prev
    ELSE IF isNotEncoded(encs[prev]) \/ isNotInMemory(encs[prev])
         THEN FindPrev(encs, ref, prev + 1)
    ELSE IF ~isPrimitive(encs[prev]) /\ ~isArray(encs[prev])
         THEN FindPrev(encs, ref, prev + 1)
    ELSE IF encs[prev].name = ref THEN prev
    ELSE FindPrev(encs, ref, prev + 1)

\* The defaults of all earlier children are cleared, one diagnostic each
RevokeDefaults(encs) == [j \in 1..Len(encs) |-> clearDefaults(encs[j])]
RevokeDiag(encs) == [j \in 1..Len(encs) |-> <<encs[j].name, "default value ignored">>]

\* The variable array check of one child
CheckVariableArray(encs, c) ==
    IF c.variableArray # "" /\ FindPrev(encs, c.variableArray, 1) > Len(encs)
    THEN [c EXCEPT !.variableArray = ""] ELSE c

VariableArrayDiag(encs, c) ==
    IF c.variableArray # "" /\ FindPrev(encs, c.variableArray, 1) > Len(encs)
    THEN << <<c.name, "variable length array ignored">> >> ELSE <<>>

\* The dependsOn check of one child
CheckDependsOn(encs, c) ==
    IF c.dependsOn = "" THEN c
    ELSE IF isBitfield(c) THEN [c EXCEPT !.dependsOn = ""]
    ELSE IF FindPrev(encs, c.dependsOn, 1) > Len(encs) THEN [c EXCEPT !.dependsOn = ""]
    ELSE c

DependsOnDiag(encs, c) ==
    IF c.dependsOn = "" THEN <<>>
    ELSE IF isBitfield(c) THEN << <<c.name, "bitfields cannot use dependsOn">> >>
    ELSE IF FindPrev(encs, c.dependsOn, 1) > Len(encs)
         THEN << <<c.name, "dependsOn ignored">> >>
    ELSE <<>>

\* A previous bitfield keeps its terminator mark
MarkPrevious_Keep(encs, prev, c) == encs

\* The bitfield terminator of the previous encoded child, given the new child
MarkPrevious(encs, prev, c) ==
    IF prev # 0 /\ isBitfield(encs[prev]) /\ isBitfield(c)
    THEN [encs EXCEPT ![prev].terminatesBitfield = FALSE]
    ELSE encs

\* A bitfield behind a bitfield starts at bit 0 as well
StartAfterPrevious_Zero(encs, prev, c) == c

\* The starting bit count of the new child, given the previous encoded child
StartAfterPrevious(encs, prev, c) ==
    IF prev # 0 /\ isBitfield(encs[prev]) /\ isBitfield(c)
    THEN setStartingBitCount(c, getEndingBitCount(encs[prev]))
    ELSE c

\* The bitfield terminator of the new child
MarkTerminates(c) == IF isBitfield(c) THEN [c EXCEPT !.terminatesBitfield = TRUE] ELSE c

\* One iteration of the loop of parseChildren, for the child c
ParseChild(st, c0) ==
    LET c == [c0 EXCEPT !.name = FieldNames[Len(st.encodables) + 1]]
    IN  IF isNotEncoded(c)
        THEN [st EXCEPT !.encodables = Append(st.encodables, c)]
        ELSE
        LET revoke == isPrimitive(c) /\ ~usesDefaults(c) /\ st.defaults
            encs1  == IF revoke THEN RevokeDefaults(st.encodables) ELSE st.encodables
            diag1  == IF revoke THEN RevokeDiag(st.encodables) ELSE <<>>
            c1     == CheckVariableArray(encs1, c)
            c2     == CheckDependsOn(encs1, c1)
            c3     == StartAfterPrevious(encs1, st.prevEncodable, MarkTerminates(c2))
            encs2  == MarkPrevious(encs1, st.prevEncodable, c3)
        IN  [encodables    |-> Append(encs2, c3),
             prevEncodable |-> Len(encs2) + 1,
             bitfields     |-> st.bitfields \/ (isPrimitive(c) /\ usesBitfields(c)),
             needsIterator |-> \/ st.needsIterator
                               \/ (isPrimitive(c) /\ usesIterator(c))
                               \/ (~isPrimitive(c) /\ isArray(c)),
             defaults      |-> IF ~isPrimitive(c) THEN st.defaults
                               ELSE IF usesDefaults(c) THEN TRUE
                               ELSE FALSE,
             diag          |-> st.diag \o diag1 \o VariableArrayDiag(encs1, c)
                                       \o DependsOnDiag(encs1, c1)]

-----------------------------------------------------------------------------
(* ProtocolStructure::parse                                                 *)

\* The name attributes of the elements: EchoReply, Ping, P and no name
PacketNames ==
    { <<"E", "c", "h", "o", "R", "e", "p", "l", "y">>, <<"P", "i", "n", "g">>, <<"P">>, <<>> }

\* The ID attributes of the Packet elements: 0x01, ECHO_ID and no ID
PacketIDs == { <<"0", "x", "0", "1">>, <<"E", "C", "H", "O", "_", "I", "D">>, <<>> }

\* The attributes of a Structure or Packet element
Elements ==
    [array : {"", "2"}, variableArray : {"", "a"}, dependsOn : {"", "a"},
     structureInterface : {"", "true"},
     parameterInterface : {"", "true"},
     name : PacketNames, ID : PacketIDs, Enum : {<<>>}]

\* The elements, and the same elements with an Enum child E
ElementsWithEnum == Elements \cup {[el EXCEPT !.Enum = <<"E">>] : el \in Elements}

\* The Structure elements: no interface attributes, and the array attributes
\* as a well formed description gives them
StructureElements ==
    {el \in Elements :
        /\ el.structureInterface = "" /\ el.parameterInterface = ""
        /\ el.name = <<"P">> /\ el.ID = <<>>
        /\ (el.variableArray # "") <=> (el.array # "")
        /\ ~(el.variableArray # "" /\ el.dependsOn # "")}

\* No EnumCreator is at work
EnumIdle ==
    /\ epc = "idle"
    /\ values = <<>>
    /\ nameList = <<>>
    /\ valueList = <<>>
    /\ commentList = <<>>
    /\ numberList = <<>>
    /\ minbitwidth = 0
    /\ output = <<>>
    /\ text = <<>>
    /\ replaced = <<>>

\* main: the flags and the path before the arguments are looked at
NoOptions == [nodoxygen |-> FALSE, nomarkdown |-> FALSE, nohelperfiles |-> FALSE,
              path |-> <<>>]

\* main is not running
MainIdle ==
    /\ arguments = <<>>
    /\ disk = [open |-> FALSE, wellFormed |-> FALSE, parseOk |-> FALSE]
    /\ opened = <<>>
    /\ parsed = <<>>
    /\ options = NoOptions
    /\ Return = -1

\* The features of the protocol that the optional helper files serve
FullSupport == [specialFloat |-> TRUE, bitfield |-> TRUE]

\* The object as its constructor leaves it, the files not yet written, and the
\* element el about to be parsed
ConstructedWith(el, sup) ==
    /\ pc = "start"
    /\ support = sup
    /\ reused = FALSE
    /\ enumList = <<>>
    /\ e = el
    /\ xml = <<>>
    /\ array = ""
    /\ variableArray = ""
    /\ dependsOn = ""
    /\ encodables = <<>>
    /\ prevEncodable = 0
    /\ bitfields = FALSE
    /\ needsIterator = FALSE
    /\ defaults = FALSE
    /\ encodedLength = ZeroLength
    /\ diag = <<>>
    /\ header = <<>>
    /\ source = <<>>
    /\ name = <<>>
    /\ id = <<>>
    /\ headerFile = <<>>
    /\ sourceFile = <<>>

\* The state after construction, before parse is called on the element el
Constructed(el) == ConstructedWith(el, FullSupport)

\* variableArray as parse leaves it: it needs an array
ParsedVariableArray(el) == IF el.array = "" THEN "" ELSE el.variableArray

\* dependsOn as parse leaves it: not together with a variable array
ParsedDependsOn(el) == IF ParsedVariableArray(el) # "" THEN "" ELSE el.dependsOn

\* The diagnostics of the attribute checks of parse
AttributeDiag(el) ==
    (IF el.array = "" /\ el.variableArray # ""
     THEN << <<"", "must specify array length to specify variable array length">> >>
     ELSE <<>>)
    \o
    (IF el.dependsOn # "" /\ ParsedVariableArray(el) # ""
     THEN << <<"", "variable length arrays cannot also use dependsOn">> >>
     ELSE <<>>)

\* The name of the structure: _unknown when the element gives none
ParsedName(el) ==
    IF el.name = <<>> THEN <<"_", "u", "n", "k", "n", "o", "w", "n">> ELSE el.name

\* parseEnumerations: the enumerations of the Enum children of the element
parseEnumerations(el) == el.Enum

\* parse, up to the call of parseChildren
ParseAttributes ==
    /\ pc = "start"
    /\ name' = ParsedName(e)
    /\ array' = e.array
    /\ variableArray' = ParsedVariableArray(e)
    /\ dependsOn' = ParsedDependsOn(e)
    /\ diag' = diag \o AttributeDiag(e)
    /\ enumList' = enumList \o parseEnumerations(e)
    /\ pc' = "children"
    /\ UNCHANGED <<e, xml, encodables, prevEncodable, bitfields, needsIterator, defaults,
                   encodedLength, header, source, id, headerFile, sourceFile>>
    /\ UNCHANGED <<support, reused, enumVars, mainVars>>

\* One iteration of the loop of parseChildren over a child drawn from S
ParseChildFrom(S) ==
    /\ pc = "children"
    /\ Len(encodables) < MaxChildren
    /\ \E c \in S :
         LET st == ParseChild(ParserState, c)
         IN  /\ xml' = Append(xml, c)
             /\ encodables' = st.encodables
             /\ prevEncodable' = st.prevEncodable
             /\ bitfields' = st.bitfields
             /\ needsIterator' = st.needsIterator
             /\ defaults' = st.defaults
             /\ diag' = st.diag
    /\ UNCHANGED <<pc, e, array, variableArray, dependsOn, encodedLength, header, source,
                   name, id, headerFile, sourceFile>>
    /\ UNCHANGED <<enumList, support, reused, enumVars, mainVars>>

\* Only the first child counts toward the maximum
SumChildren_MaxOfFirst(encs, i) ==
    LET Mn[k \in 0..Len(encs)] ==
            IF k = 0 THEN 0 ELSE Mn[k - 1] + encs[k].encodedLength.minEncodedLength
        Nd[k \in 0..Len(encs)] ==
            IF k = 0 THEN 0 ELSE Nd[k - 1] + encs[k].encodedLength.nonDefaultEncodedLength
    IN  [minEncodedLength |-> Mn[Len(encs)],
         maxEncodedLength |->
             IF Len(encs) = 0 THEN 0 ELSE encs[1].encodedLength.maxEncodedLength,
         nonDefaultEncodedLength |-> Nd[Len(encs)]]

\* The sum of the lengths of the children
RECURSIVE SumChildren(_, _)
SumChildren(encs, i) ==
    IF i > Len(encs) THEN ZeroLength
    ELSE LET rest == SumChildren(encs, i + 1)
             own  == encs[i].encodedLength
         IN  [minEncodedLength |-> own.minEncodedLength + rest.minEncodedLength,
              maxEncodedLength |-> own.maxEncodedLength + rest.maxEncodedLength,
              nonDefaultEncodedLength |->
                  own.nonDefaultEncodedLength + rest.nonDefaultEncodedLength]

\* The encoded length of a structure with these children and attributes
StructureLength(encs, arr, varArr, depOn) ==
    AddToLength(ZeroLength, SumChildren(encs, 1), arr, varArr # "", depOn # "")

\* parse, after parseChildren has returned
SumLength ==
    /\ pc = "children"
    /\ encodedLength' = StructureLength(encodables, array, variableArray, dependsOn)
    /\ pc' = "parsed"
    /\ UNCHANGED <<e, xml, array, variableArray, dependsOn, encodables, prevEncodable,
                   bitfields, needsIterator, defaults, diag, header, source,
                   name, id, headerFile, sourceFile>>
    /\ UNCHANGED <<enumList, support, reused, enumVars, mainVars>>

ParseStructureChild == ParseChildFrom(StructureChildren)

InitStructure == \E el \in StructureElements : Constructed(el) /\ EnumIdle /\ MainIdle

NextStructure == ParseAttributes \/ ParseStructureChild \/ SumLength

\* ProtocolStructure::parse of a Structure element
SpecStructure == InitStructure /\ [][NextStructure]_vars

\* The children of the structures whose bitfields are looked at: bitfields
\* of 3, 5 and 8 bits, a field, a field that is not encoded and a structure
BitfieldChildren ==
    { Bitfield(3), Bitfield(5), Bitfield(8),
      Child(TRUE, FALSE, FALSE, "", FALSE, "", "", ""),
      Child(TRUE, TRUE, FALSE, "", FALSE, "", "", ""),
      Child(FALSE, FALSE, FALSE, "", FALSE, "", "", "") }

ParseBitfieldChild == ParseChildFrom(BitfieldChildren)

InitBitfield ==
    \E el \in StructureElements :
        /\ el.array = "" /\ el.dependsOn = ""
        /\ Constructed(el) /\ EnumIdle /\ MainIdle

NextBitfield == ParseAttributes \/ ParseBitfieldChild \/ SumLength

\* ProtocolStructure::parse of a Structure element with bitfields
SpecBitfield == InitBitfield /\ [][NextBitfield]_vars

-----------------------------------------------------------------------------
(* ProtocolPacket::parse                                                    *)

\* The children of the packets
PacketChildren ==
    { Child(TRUE, FALSE, FALSE, "", FALSE, "", "", ""),      \* field
      Child(TRUE, FALSE, FALSE, "", FALSE, "0", "", ""),     \* field with a default
      Child(TRUE, TRUE, FALSE, "", FALSE, "", "", ""),       \* field that is not encoded
      Child(TRUE, FALSE, FALSE, "", TRUE, "", "", ""),       \* bitfield
      Child(TRUE, FALSE, FALSE, "2", FALSE, "", "a", ""),    \* variable array of fields
      Child(FALSE, FALSE, FALSE, "", FALSE, "", "", "a") }   \* structure that depends on a

ParsePacketChild == ParseChildFrom(PacketChildren)

\* The diagnostics of a packet that is declared as an array or with dependsOn
PacketDiag(arr, depOn) ==
    (IF arr # "" THEN << <<"", "packets cannot be an array">> >> ELSE <<>>)
    \o
    (IF depOn # "" THEN << <<"", "dependsOn makes no sense for a packet">> >> ELSE <<>>)

\* The variable array is kept when the array is cleared
ClearedVariableArray_Kept(arr, varArr) == varArr

\* The variableArray of a packet: cleared together with the array
ClearedVariableArray(arr, varArr) == IF arr # "" THEN "" ELSE varArr

\* parse, after ProtocolStructure::parse has returned: a packet is no array and
\* depends on nothing
PacketClear ==
    /\ pc = "parsed"
    /\ array' = ""
    /\ variableArray' = ClearedVariableArray(array, variableArray)
    /\ dependsOn' = ""
    /\ diag' = diag \o PacketDiag(array, dependsOn)
    /\ pc' = "cleared"
    /\ UNCHANGED <<e, xml, encodables, prevEncodable, bitfields, needsIterator, defaults,
                   encodedLength, header, source, name, id, headerFile, sourceFile>>
    /\ UNCHANGED <<enumList, support, reused, enumVars, mainVars>>

\* QString::contains("true", Qt::CaseInsensitive) on an interface attribute
ContainsTrue(attr) == attr \in {"true", "TRUE", "True"}

\* The structure interface is chosen for a single child already
SelectInterface_OneChild(el, n) ==
    IF n <= 0
    THEN [structureFunctions |-> FALSE, parameterFunctions |-> TRUE]
    ELSE IF ~ContainsTrue(el.structureInterface) /\ ~ContainsTrue(el.parameterInterface)
    THEN [structureFunctions |-> TRUE, parameterFunctions |-> FALSE]
    ELSE [structureFunctions |-> ContainsTrue(el.structureInterface),
          parameterFunctions |-> ContainsTrue(el.parameterInterface)]

\* The attributes are taken as given, also for a packet without children
SelectInterface_NoEmptyCase(el, n) ==
    IF ~ContainsTrue(el.structureInterface) /\ ~ContainsTrue(el.parameterInterface)
    THEN IF n <= 1
         THEN [structureFunctions |-> FALSE, parameterFunctions |-> TRUE]
         ELSE [structureFunctions |-> TRUE, parameterFunctions |-> FALSE]
    ELSE [structureFunctions |-> ContainsTrue(el.structureInterface),
          parameterFunctions |-> ContainsTrue(el.parameterInterface)]

\* The interfaces parse chooses for n children
SelectInterface(el, n) ==
    IF n <= 0
    THEN [structureFunctions |-> FALSE, parameterFunctions |-> TRUE]
    ELSE IF ~ContainsTrue(el.structureInterface) /\ ~ContainsTrue(el.parameterInterface)
    THEN IF n <= 1
         THEN [structureFunctions |-> FALSE, parameterFunctions |-> TRUE]
         ELSE [structureFunctions |-> TRUE, parameterFunctions |-> FALSE]
    ELSE [structureFunctions |-> ContainsTrue(el.structureInterface),
          parameterFunctions |-> ContainsTrue(el.parameterInterface)]

\* ProtocolStructure::getNumberOfEncodes
getNumberOfEncodes(encs) == Cardinality({i \in 1..Len(encs) : ~isNotEncoded(encs[i])})

\* One token per child, in the order of the list
TokensOf(kind, encs, from, to) ==
    [k \in 1..(IF to >= from THEN to - from + 1 ELSE 0) |-> <<kind, encs[from + k - 1].name>>]

\* The index at which the first decode loop stops: the first default child,
\* or the length of the list (counted from 0, as the loop variable i)
FirstDefault(encs) ==
    IF \E i \in 1..Len(encs) : isDefault(encs[i])
    THEN (CHOOSE i \in 1..Len(encs) :
              isDefault(encs[i]) /\ \A j \in 1..(i - 1) : ~isDefault(encs[j])) - 1
    ELSE Len(encs)

\* The set to default assignments of a decode function
SetToDefaults(encs, dflts) ==
    IF dflts THEN TokensOf("setdefault", encs, 1, Len(encs)) ELSE <<>>

\* The length check is written whatever the lengths are
DecodeFields_NoLengthTest(encs, len) ==
    LET i == FirstDefault(encs)
    IN  TokensOf("decode", encs, 1, i)
        \o (IF i > 0 THEN << <<"if numBytes < byteindex return 0", "">> >> ELSE <<>>)
        \o TokensOf("decode", encs, i + 1, Len(encs))

\* The second loop starts behind the child at which the first loop stopped
DecodeFields_SkipsFirstDefault(encs, len) ==
    LET i == FirstDefault(encs)
    IN  TokensOf("decode", encs, 1, i)
        \o (IF len.minEncodedLength # len.nonDefaultEncodedLength /\ i > 0
            THEN << <<"if numBytes < byteindex return 0", "">> >> ELSE <<>>)
        \o TokensOf("decode", encs, i + 2, Len(encs))

\* The two decode loops of a decode function and the length check between them
DecodeFields(encs, len) ==
    LET i == FirstDefault(encs)
    IN  TokensOf("decode", encs, 1, i)
        \o (IF len.minEncodedLength # len.nonDefaultEncodedLength /\ i > 0
            THEN << <<"if numBytes < byteindex return 0", "">> >> ELSE <<>>)
        \o TokensOf("decode", encs, i + 1, Len(encs))

\* The checks that open the decode function of a packet with encoded fields
DecodeChecks ==
    << <<"if packet ID differs return 0", "">>,
       <<"if numBytes < MinDataLength return 0", "">> >>

\* The checks are written after the decodes of the fields
DecodeBody_ChecksLast(encs, dflts, len) ==
    SetToDefaults(encs, dflts) \o DecodeFields(encs, len) \o DecodeChecks
                               \o << <<"return 1", "">> >>

\* The defaults are set after the fields are decoded
DecodeBody_DefaultsLast(encs, dflts, len) ==
    DecodeChecks \o DecodeFields(encs, len) \o SetToDefaults(encs, dflts)
                 \o << <<"return 1", "">> >>

\* The body of a decode function of a packet with encoded fields
DecodeBody(encs, dflts, len) ==
    DecodeChecks \o SetToDefaults(encs, dflts) \o DecodeFields(encs, len)
                 \o << <<"return 1", "">> >>

\* The body of the decode function of a packet without encoded fields
EmptyDecodeBody ==
    << <<"if packet ID differs return 0", "">>, <<"else return 1", "">> >>

\* The body of an encode function
EncodeBody(encs) ==
    IF getNumberOfEncodes(encs) > 0
    THEN TokensOf("encode", encs, 1, Len(encs)) \o << <<"finish packet", "byteindex">> >>
    ELSE << <<"finish packet", "0">> >>

\* A structure child with the given children of its own, already parsed
WithChildren(c, encs) == [c EXCEPT !.encodables = encs]

\* A child under the given name
Called(c, n) == [c EXCEPT !.name = n]

\* Encodable::typeName of a structure: its name and _t behind the prefix,
\* which is left empty
typeName(n) == n \o "_t"

\* The characters of a QString as one string
RECURSIVE Str(_)
Str(chars) == IF chars = <<>> THEN "" ELSE chars[1] \o Str(Tail(chars))

\* ProtocolField::getDeclaration: the line that declares a field as a member
FieldDeclaration(c) == "field " \o c.name \o ";"

\* ProtocolStructure::getDeclaration: the line that declares the structure as
\* a member of its parent
getDeclaration(c) ==
    IF isPrimitive(c) THEN FieldDeclaration(c)
    ELSE typeName(c.name) \o " " \o c.name \o ";"

\* The lines that declare the children as members
Declarations(encs) == [k \in 1..Len(encs) |-> getDeclaration(encs[k])]

\* The typedef is written for a single child as well
OwnTypedef_Always(encs, tn, alwaysCreate) ==
    <<"typedef struct {">> \o Declarations(encs) \o <<"}" \o tn \o ";">>

\* getStructureDeclaration: the typedef of the structure itself, unless it has
\* a single child and the caller does not insist
OwnTypedef(encs, tn, alwaysCreate) ==
    IF Len(encs) > 1 \/ alwaysCreate
    THEN <<"typedef struct {">> \o Declarations(encs) \o <<"}" \o tn \o ";">>
    ELSE <<>>

\* getStructureDeclaration of a structure with the children encs and the type
\* name tn: the declarations of the children that are structures, then its own
RECURSIVE getStructureDeclaration(_, _, _)
RECURSIVE ChildDeclarations(_, _)
ChildDeclarations(encs, i) ==
    IF i > Len(encs) THEN <<>>
    ELSE (IF ~isPrimitive(encs[i])
          THEN getStructureDeclaration(encs[i].encodables, typeName(encs[i].name), TRUE)
          ELSE <<>>)
         \o ChildDeclarations(encs, i + 1)

getStructureDeclaration(encs, tn, alwaysCreate) ==
    IF Len(encs) > 0
    THEN ChildDeclarations(encs, 1) \o OwnTypedef(encs, tn, alwaysCreate)
    ELSE <<>>

\* getPrototypeEncodeString and getPrototypeDecodeString of a structure child:
\* the functions of its own structure children, then its own function, and
\* nothing for a structure without children
RECURSIVE getPrototypeString(_, _)
RECURSIVE ChildPrototypes(_, _, _)
ChildPrototypes(code, encs, i) ==
    IF i > Len(encs) THEN <<>>
    ELSE (IF ~isPrimitive(encs[i]) THEN getPrototypeString(code, encs[i]) ELSE <<>>)
         \o ChildPrototypes(code, encs, i + 1)

getPrototypeString(code, c) ==
    IF Len(c.encodables) > 0
    THEN ChildPrototypes(code, c.encodables, 1)
         \o << [fn |-> code \o typeName(c.name), of |-> c.name,
                body |-> TokensOf(code, c.encodables, 1, Len(c.encodables))
                         \o << <<"return", "byteindex">> >>] >>
    ELSE <<>>

getPrototypeEncodeString(c) == getPrototypeString("encode", c)

getPrototypeDecodeString(c) == getPrototypeString("decode", c)

\* createSubStructureFunctions: the functions of the children that are
\* structures
RECURSIVE SubStructureFunctions(_, _)
SubStructureFunctions(encs, i) ==
    IF i > Len(encs) THEN <<>>
    ELSE (IF isPrimitive(encs[i]) THEN <<>>
          ELSE getPrototypeEncodeString(encs[i]) \o getPrototypeDecodeString(encs[i]))
         \o SubStructureFunctions(encs, i + 1)

\* createStructurePacketFunctions: what it writes to the source
StructurePacketSource(encs, dflts, len) ==
    << [fn |-> "encodePacketStructure", of |-> "", body |-> EncodeBody(encs)],
       [fn |-> "decodePacketStructure", of |-> "",
        body |-> IF getNumberOfEncodes(encs) > 0 THEN DecodeBody(encs, dflts, len)
                 ELSE EmptyDecodeBody] >>

\* createStructurePacketFunctions: what it writes to the header
StructurePacketHeader(encs) ==
    IF getNumberOfEncodes(encs) > 0
    THEN <<"encodePacketStructure", "decodePacketStructure">> ELSE <<>>

\* createPacketFunctions: what it writes to the source
PacketSource(encs, dflts, len) ==
    << [fn |-> "encodePacket", of |-> "", body |-> EncodeBody(encs)],
       [fn |-> "decodePacket", of |-> "",
        body |-> IF getNumberOfEncodes(encs) > 0 THEN DecodeBody(encs, dflts, len)
                 ELSE EmptyDecodeBody] >>

\* createPacketFunctions: what it writes to the header
PacketHeader == <<"encodePacket", "decodePacket">>

\* The name is used as it is
PacketId_NameAsIs(el, nm) == IF el.ID = <<>> THEN nm ELSE el.ID

\* createUtilityFunctions: the ID of the packet is the ID attribute, or the
\* name in upper case when there is none
PacketId(el, nm) == IF el.ID = <<>> THEN ToUpper(nm) ELSE el.ID

\* createUtilityFunctions: the packet ID function returns the ID, the minimum
\* data length function returns the minimum encoded length
UtilitySource(len, pid) ==
    << [fn |-> "getPacketID", of |-> "", body |-> << <<"return", pid>> >>],
       [fn |-> "getMinDataLength", of |-> "",
        body |-> << <<"return", len.minEncodedLength>> >>] >>

UtilityHeader == <<"getPacketID", "getMinDataLength">>

\* What parse writes to the source, from the sub structure functions to the
\* utility functions
EmitSource(el, encs, dflts, len, pid) ==
    LET sel == SelectInterface(el, Len(encs))
    IN  SubStructureFunctions(encs, 1)
        \o (IF sel.structureFunctions /\ Len(encs) > 0
            THEN StructurePacketSource(encs, dflts, len) ELSE <<>>)
        \o (IF sel.parameterFunctions THEN PacketSource(encs, dflts, len) ELSE <<>>)
        \o UtilitySource(len, pid)

\* What parse writes to the header, from the packet functions on
EmitHeader(el, encs) ==
    LET sel == SelectInterface(el, Len(encs))
    IN  (IF sel.structureFunctions /\ Len(encs) > 0
         THEN StructurePacketHeader(encs) ELSE <<>>)
        \o (IF sel.parameterFunctions THEN PacketHeader ELSE <<>>)
        \o UtilityHeader

\* ProtocolFile::prepareToAppend and isAppending: a writer appends when its
\* file is on disk already
isAppending(file) == file # <<>>

\* The banner and the include are written whatever the writer says
HeaderPreamble_Always(appending) == <<"file banner", "#include Protocol.h">>

\* parse: the Doxygen banner of the header file and the include of the
\* protocol header, for a header that is new
HeaderPreamble(appending) ==
    IF ~appending THEN <<"file banner", "#include Protocol.h">> ELSE <<>>

Include(file) == [fn |-> "#include", of |-> file, body |-> <<>>]

\* parse: the includes of the helper files, for a source file that is new
SourcePreamble(appending, sup) ==
    IF ~appending
    THEN (IF sup.specialFloat THEN <<Include("floatspecial.h")>> ELSE <<>>)
         \o (IF sup.bitfield THEN <<Include("bitfieldspecial.h")>> ELSE <<>>)
         \o <<Include("fielddecode.h"), Include("fieldencode.h"),
              Include("scaleddecode.h"), Include("scaledencode.h")>>
    ELSE <<>>

\* parse: the declaration of the structure of the packet, which is forced
\* when the structure interface is chosen
EmitDeclaration(el, encs, nm) ==
    getStructureDeclaration(encs, typeName(Str(nm)),
                            SelectInterface(el, Len(encs)).structureFunctions)

\* parse: the declarations of the enumerations of the packet
EnumOutputs(enums) == [k \in 1..Len(enums) |-> "enum " \o enums[k]]

\* parse, from prepareToAppend to the utility functions
Emit ==
    /\ pc = "cleared"
    /\ id' = PacketId(e, name)
    /\ source' = source \o SourcePreamble(isAppending(sourceFile), support)
                        \o EmitSource(e, encodables, defaults, encodedLength,
                                      PacketId(e, name))
    /\ header' = header \o HeaderPreamble(isAppending(headerFile))
                        \o EnumOutputs(enumList)
                        \o EmitDeclaration(e, encodables, name)
                        \o EmitHeader(e, encodables)
    /\ pc' = "emitted"
    /\ UNCHANGED <<e, xml, array, variableArray, dependsOn, encodables, prevEncodable,
                   bitfields, needsIterator, defaults, encodedLength, diag, name,
                   headerFile, sourceFile>>
    /\ UNCHANGED <<enumList, support, reused, enumVars, mainVars>>

\* ProtocolFile::flush: the buffer is written behind what the file holds
FlushTo(file, buffer) == file \o buffer

\* ProtocolFile::clear: the buffer of a writer after clear
ClearedBuffer == <<>>

\* The source writer forgets to clear its buffer
ClearWriters_KeepSource ==
    /\ pc = "flushed"
    /\ header' = ClearedBuffer
    /\ pc' = "done"
    /\ UNCHANGED <<e, xml, array, variableArray, dependsOn, encodables, prevEncodable,
                   bitfields, needsIterator, defaults, encodedLength, diag, name, id,
                   source, headerFile, sourceFile>>
    /\ UNCHANGED <<enumList, support, reused, enumVars, mainVars>>

\* parse: header.flush and source.flush write the buffers to disk
Flush ==
    /\ pc = "emitted"
    /\ headerFile' = FlushTo(headerFile, header)
    /\ sourceFile' = FlushTo(sourceFile, source)
    /\ pc' = "flushed"
    /\ UNCHANGED <<e, xml, array, variableArray, dependsOn, encodables, prevEncodable,
                   bitfields, needsIterator, defaults, encodedLength, diag, name, id,
                   header, source>>
    /\ UNCHANGED <<enumList, support, reused, enumVars, mainVars>>

\* parse: header.clear and source.clear empty the buffers, and parse returns
ClearWriters ==
    /\ pc = "flushed"
    /\ header' = ClearedBuffer
    /\ source' = ClearedBuffer
    /\ pc' = "done"
    /\ UNCHANGED <<e, xml, array, variableArray, dependsOn, encodables, prevEncodable,
                   bitfields, needsIterator, defaults, encodedLength, diag, name, id,
                   headerFile, sourceFile>>
    /\ UNCHANGED <<enumList, support, reused, enumVars, mainVars>>

\* The Packet elements of the packet specification: one name, no ID
PacketElements == {el \in Elements : el.name = <<"P">> /\ el.ID = <<>>}

InitPacket == \E el \in PacketElements : Constructed(el) /\ EnumIdle /\ MainIdle

NextPacket ==
    \/ ParseAttributes \/ ParsePacketChild \/ SumLength \/ PacketClear \/ Emit
    \/ Flush \/ ClearWriters

\* ProtocolPacket::parse of a Packet element
SpecPacket == InitPacket /\ [][NextPacket]_vars

\* The Packet elements whose ID function is looked at: every name and ID, no
\* array, variableArray, dependsOn or interface attribute
UtilityElements ==
    {el \in Elements :
        /\ el.array = "" /\ el.variableArray = "" /\ el.dependsOn = ""
        /\ el.structureInterface = "" /\ el.parameterInterface = ""}

InitUtility == \E el \in UtilityElements : Constructed(el) /\ EnumIdle /\ MainIdle

NextUtility ==
    \/ ParseAttributes \/ ParsePacketChild \/ SumLength \/ PacketClear \/ Emit
    \/ Flush \/ ClearWriters

SpecUtility == InitUtility /\ [][NextUtility]_vars

-----------------------------------------------------------------------------
(* QString numbers: toUInt, setNum, trimmed, replace                        *)

\* Largest number of Value children of an Enum element
MaxValues == 3

HexDigits == <<"0", "1", "2", "3", "4", "5", "6", "7", "8", "9",
               "A", "B", "C", "D", "E", "F">>

\* The value of a digit, 16 for a character that is no digit
DigitValue(ch) ==
    IF \E k \in DOMAIN HexDigits : HexDigits[k] = Upper(ch)
    THEN (CHOOSE k \in DOMAIN HexDigits : HexDigits[k] = Upper(ch)) - 1
    ELSE 16

\* QString::trimmed
RECURSIVE Trimmed(_)
Trimmed(str) ==
    IF str = <<>> THEN str
    ELSE IF Head(str) = " " THEN Trimmed(Tail(str))
    ELSE IF str[Len(str)] = " " THEN Trimmed(SubSeq(str, 1, Len(str) - 1))
    ELSE str

\* QString::startsWith
StartsWith(str, pre) == Len(str) >= Len(pre) /\ SubSeq(str, 1, Len(pre)) = pre

\* The two halves of an unsigned 32 bit number are kept apart: hi * 65536 + lo
Half == 65536

\* QString::toUInt(&ok, base): the digits are taken in from the left, a 0x in
\* front is passed over in base 16; a character that is no digit of the base, no
\* digit at all, or a number of more than 32 bits give ok = false and 0
ToUInt(str, base) ==
    LET digits == IF base = 16 /\ (StartsWith(str, <<"0", "x">>) \/ StartsWith(str, <<"0", "X">>))
                  THEN SubSeq(str, 3, Len(str)) ELSE str
        Digit(p, ch) ==
            LET d == DigitValue(ch)
                l == p.lo * base + d
                h == p.hi * base + (l \div Half)
            IN  IF ~p.ok \/ d >= base \/ h >= Half
                THEN [ok |-> FALSE, hi |-> 0, lo |-> 0]
                ELSE [ok |-> TRUE, hi |-> h, lo |-> l % Half]
        F[k \in 0..Len(digits)] ==
            IF k = 0 THEN [ok |-> Len(digits) > 0, hi |-> 0, lo |-> 0]
            ELSE CHOOSE r \in { Digit(p, digits[k]) : p \in {F[k - 1]} } : TRUE
    IN  F[Len(digits)]

\* The int an unsigned 32 bit number becomes when it is assigned to an int
ToInt(u) == IF u.hi >= Half \div 2 THEN (u.hi - Half) * Half + u.lo ELSE u.hi * Half + u.lo

\* The decimal digits of a natural number
RECURSIVE Decimal(_)
Decimal(n) ==
    IF n < 10 THEN <<HexDigits[n + 1]>>
    ELSE Decimal(n \div 10) \o <<HexDigits[(n % 10) + 1]>>

\* QString::setNum(int)
SetNum(n) == IF n < 0 THEN <<"-">> \o Decimal(0 - n) ELSE Decimal(n)

\* QString::replace(before, after): every occurrence, from the left, the text
\* put in is not looked at again
RECURSIVE Replace(_, _, _)
Replace(str, before, after) ==
    IF Len(str) < Len(before) THEN str
    ELSE IF StartsWith(str, before)
    THEN after \o Replace(SubSeq(str, Len(before) + 1, Len(str)), before, after)
    ELSE <<Head(str)>> \o Replace(Tail(str), before, after)

\* QString::contains
Contains(str, part) ==
    \E k \in 1..(Len(str) - Len(part) + 1) : SubSeq(str, k, k + Len(part) - 1) = part

\* (int)ceil(log2(n)) for n >= 1
RECURSIVE CeilLog2(_)
CeilLog2(n) == IF n <= 1 THEN 0 ELSE 1 + CeilLog2((n + 1) \div 2)

-----------------------------------------------------------------------------
(* EnumCreator                                                              *)

\* The width when the largest value tells nothing
DefaultBitWidth == 8

\* The largest value is taken for the number of values
MinBitWidth_OfMaxValue(maxValue) ==
    IF maxValue > 0 THEN CeilLog2(maxValue) ELSE DefaultBitWidth

\* computeNumberList: the bits needed to encode the maximum value
MinBitWidth(maxValue) ==
    IF maxValue > 0 THEN CeilLog2(maxValue + 1) ELSE DefaultBitWidth

\* computeNumberList: the number a value string stands for
ParseNumber(stringValue) ==
    IF StartsWith(stringValue, <<"0", "x">>) THEN ToUInt(stringValue, 16)
    ELSE IF StartsWith(stringValue, <<"0", "b">>) THEN ToUInt(stringValue, 2)
    ELSE ToUInt(stringValue, 10)

\* computeNumberList: one turn of the loop, for the string raw of the value
\* list and the locals p left by the turns before
NumberStep(p, raw) ==
    LET Step(stringValue, u) ==
            LET value == IF stringValue = <<>> THEN p.value + 1
                         ELSE IF u.ok THEN ToInt(u) ELSE 0
                baseString == IF stringValue = <<>> THEN p.baseString
                              ELSE IF u.ok THEN <<>> ELSE stringValue
                number == IF stringValue = <<>>
                          THEN IF p.baseString = <<>> THEN SetNum(value)
                               ELSE p.baseString \o <<" ", "+", " ">> \o SetNum(value)
                          ELSE IF u.ok THEN SetNum(value) ELSE stringValue
            IN  [value |-> value,
                 maxValue |-> IF value > p.maxValue THEN value ELSE p.maxValue,
                 baseString |-> baseString,
                 numberList |-> Append(p.numberList, number)]
    IN  CHOOSE r \in UNION { { Step(stringValue, u) : u \in {ParseNumber(stringValue)} } :
                                 stringValue \in {Trimmed(raw)} } : TRUE

\* computeNumberList: the loop over the first k strings of the value list,
\* with the locals value, maxValue and baseString
RECURSIVE NumberLoop(_, _)
NumberLoop(vals, k) ==
    IF k = 0
    THEN [value |-> -1, maxValue |-> 1, baseString |-> <<>>, numberList |-> <<>>]
    ELSE CHOOSE r \in { NumberStep(p, vals[k]) : p \in {NumberLoop(vals, k - 1)} } : TRUE

\* computeNumberList
ComputeNumberList(vals) ==
    LET loop == NumberLoop(vals, Len(vals))
    IN  [numberList |-> loop.numberList, minbitwidth |-> MinBitWidth(loop.maxValue)]

\* The Value children that have a name
Named(vs) == SelectSeq(vs, LAMBDA v : v.name # <<>>)

\* The state of an EnumCreator after clear
Cleared ==
    [nameList |-> <<>>, valueList |-> <<>>, commentList |-> <<>>, numberList |-> <<>>,
     minbitwidth |-> 0, output |-> <<>>]

\* parse goes on when there is no Value child
EnumParse_NoReturn(old, vs) ==
    LET named == Named(vs)
        vals  == [k \in 1..Len(named) |-> named[k].value]
        nums  == ComputeNumberList(vals)
    IN  [nameList |-> [k \in 1..Len(named) |-> named[k].name],
         valueList |-> vals,
         commentList |-> [k \in 1..Len(named) |-> <<>>],
         numberList |-> nums.numberList,
         minbitwidth |-> nums.minbitwidth,
         output |-> << <<"typedef enum">> >>
                    \o [k \in 1..Len(named) |-> <<"declaration", named[k].name, named[k].value>>]
                    \o << <<"}">> >>]

\* parse does not clear what an earlier parse left
EnumParse_NoClear(old, vs) ==
    IF Len(vs) <= 0 THEN old ELSE EnumParse_NoReturn(old, vs)

\* parse of an Enum element with the Value children vs, by an EnumCreator in
\* the state old: the lists, the bit width and the declaration
EnumParse(old, vs) ==
    IF Len(vs) <= 0 THEN Cleared
    ELSE LET named == Named(vs)
             vals  == [k \in 1..Len(named) |-> named[k].value]
             nums  == ComputeNumberList(vals)
         IN  [nameList |-> [k \in 1..Len(named) |-> named[k].name],
              valueList |-> vals,
              commentList |-> [k \in 1..Len(named) |-> <<>>],
              numberList |-> nums.numberList,
              minbitwidth |-> nums.minbitwidth,
              output |-> << <<"typedef enum">> >>
                         \o [k \in 1..Len(named) |->
                                <<"declaration", named[k].name, named[k].value>>]
                         \o << <<"}">> >>]

\* replaceEnumerationNameWithValue: the loop over the first k enumerators
RECURSIVE ReplaceLoop(_, _, _, _, _)
ReplaceLoop(txt, names, vals, nums, k) ==
    IF k = 0 THEN txt
    ELSE LET Turn(t) ==
                 IF names[k] = <<>> THEN t
                 ELSE IF vals[k] = nums[k] THEN t
                 ELSE IF Contains(t, names[k]) THEN Replace(t, names[k], nums[k])
                 ELSE t
         IN  CHOOSE r \in { Turn(t) : t \in {ReplaceLoop(txt, names, vals, nums, k - 1)} } :
                 TRUE

\* The raw value attributes: none, 0, 3, 0xA, the symbol S and 0xFFFFFFFF
RawValues ==
    { <<>>, <<"0">>, <<"3">>, <<"0", "x", "A">>, <<"S">>,
      <<"0", "x", "F", "F", "F", "F", "F", "F", "F", "F">> }

\* The Value children: named A with any raw value, named B without a value,
\* or without a name
ValueChildren ==
    [name : {<<"A">>}, value : RawValues]
        \cup {[name |-> <<"B">>, value |-> <<>>], [name |-> <<>>, value |-> <<>>]}

\* The Value children of an Enum element
ValueLists == UNION { [1..n -> ValueChildren] : n \in 0..MaxValues }

\* The Enum elements an EnumCreator is given after its first
ReparseLists == { <<>>, <<[name |-> <<"B">>, value |-> <<"3">>]>> }

\* The texts the names are replaced in
Texts == { <<"A">>, <<"B", " ", "+", " ", "A">>, <<"C">>, <<"P", "_", "A">> }

\* The members an EnumCreator has when its constructor calls parse
InitEnum ==
    /\ epc = "new"
    /\ values \in ValueLists
    /\ nameList = <<>>
    /\ valueList = <<>>
    /\ commentList = <<>>
    /\ numberList = <<>>
    /\ minbitwidth = 0
    /\ output = <<>>
    /\ text = <<>>
    /\ replaced = <<>>
    /\ \E el \in PacketElements :
           /\ el.array = "" /\ el.variableArray = "" /\ el.dependsOn = ""
           /\ el.structureInterface = "" /\ el.parameterInterface = ""
           /\ Constructed(el)
    /\ MainIdle

\* The members after parse of the Value children vs
Parsed(vs) ==
    \E new \in { EnumParse([nameList |-> nameList, valueList |-> valueList,
                             commentList |-> commentList, numberList |-> numberList,
                             minbitwidth |-> minbitwidth, output |-> output], vs) } :
        /\ nameList' = new.nameList
        /\ valueList' = new.valueList
        /\ commentList' = new.commentList
        /\ numberList' = new.numberList
        /\ minbitwidth' = new.minbitwidth
        /\ output' = new.output

\* EnumCreator::EnumCreator: parse of the element
EnumFirstParse ==
    /\ epc = "new"
    /\ Parsed(values)
    /\ epc' = "parsed"
    /\ UNCHANGED <<values, text, replaced>>
    /\ UNCHANGED <<packetVars, mainVars>>

\* EnumCreator::parse of another element
EnumReparse ==
    /\ epc \in {"parsed", "replaced"}
    /\ \E vs \in ReparseLists :
           /\ values' = vs
           /\ Parsed(vs)
    /\ epc' = "reparsed"
    /\ UNCHANGED <<text, replaced>>
    /\ UNCHANGED <<packetVars, mainVars>>

\* EnumCreator::replaceEnumerationNameWithValue
EnumReplace ==
    /\ epc = "parsed"
    /\ \E t \in Texts :
           /\ text' = t
           /\ replaced' = ReplaceLoop(t, nameList, valueList, numberList, Len(nameList))
    /\ epc' = "replaced"
    /\ UNCHANGED <<values, nameList, valueList, commentList, numberList, minbitwidth, output>>
    /\ UNCHANGED <<packetVars, mainVars>>

NextEnum == EnumFirstParse \/ EnumReparse \/ EnumReplace

SpecEnum == InitEnum /\ [][NextEnum]_vars

-----------------------------------------------------------------------------
(* main                                                                     *)

\* Largest number of arguments after the program name
MaxArgs == 2

\* The exit code main starts with
InitialReturn == 1

DotXml == <<".", "x", "m", "l">>
NoDoxygen == <<"-", "n", "o", "-", "d", "o", "x", "y", "g", "e", "n">>
NoMarkdown == <<"-", "n", "o", "-", "m", "a", "r", "k", "d", "o", "w", "n">>
NoHelperFiles ==
    <<"-", "n", "o", "-", "h", "e", "l", "p", "e", "r", "-", "f", "i", "l", "e", "s">>

\* QString::endsWith
EndsWith(str, post) ==
    Len(str) >= Len(post) /\ SubSeq(str, Len(str) - Len(post) + 1, Len(str)) = post

\* QString::contains(part, Qt::CaseInsensitive)
ContainsAnyCase(str, part) == Contains(ToUpper(str), ToUpper(part))

\* The arguments given on the command line: two .xml files, a .xml file whose
\* name holds a flag, a file of another kind, a directory, the empty string
\* and the three flags, one of them in capitals
Arguments ==
    { <<"a">> \o DotXml, <<"b">> \o DotXml, <<"x">> \o NoDoxygen \o DotXml,
      <<"p", ".", "t", "x", "t">>, <<"o", "u", "t">>, <<>>,
      NoDoxygen, ToUpper(NoMarkdown), NoHelperFiles }

\* The protocol file is looked for among the .xml arguments only
ScanArguments_XmlOnly(args) ==
    LET F[i \in 0..Len(args)] ==
            IF i = 0 THEN [filename |-> <<>>, options |-> NoOptions]
            ELSE LET p == F[i - 1]
                     arg == args[i]
                 IN  IF ContainsAnyCase(arg, NoDoxygen)
                     THEN [p EXCEPT !.options.nodoxygen = TRUE]
                     ELSE IF ContainsAnyCase(arg, NoMarkdown)
                     THEN [p EXCEPT !.options.nomarkdown = TRUE]
                     ELSE IF ContainsAnyCase(arg, NoHelperFiles)
                     THEN [p EXCEPT !.options.nohelperfiles = TRUE]
                     ELSE IF EndsWith(arg, DotXml) THEN [p EXCEPT !.filename = arg]
                     ELSE IF arg # p.filename THEN [p EXCEPT !.options.path = arg]
                     ELSE p
    IN  F[Len(args)]

\* main: the loop over the arguments, args being the arguments after the
\* program name, of which there is at least one; filename starts as the first
ScanArguments(args) ==
    LET F[i \in 0..Len(args)] ==
            IF i = 0 THEN [filename |-> args[1], options |-> NoOptions]
            ELSE LET p == F[i - 1]
                     arg == args[i]
                 IN  IF ContainsAnyCase(arg, NoDoxygen)
                     THEN [p EXCEPT !.options.nodoxygen = TRUE]
                     ELSE IF ContainsAnyCase(arg, NoMarkdown)
                     THEN [p EXCEPT !.options.nomarkdown = TRUE]
                     ELSE IF ContainsAnyCase(arg, NoHelperFiles)
                     THEN [p EXCEPT !.options.nohelperfiles = TRUE]
                     ELSE IF EndsWith(arg, DotXml) THEN [p EXCEPT !.filename = arg]
                     ELSE IF arg # p.filename THEN [p EXCEPT !.options.path = arg]
                     ELSE p
    IN  F[Len(args)]

\* main, for the arguments args and a file system and parser that answer env:
\* the files opened, the files parsed, the options and the exit code
RunMain(args, env) ==
    IF Len(args) = 0
    THEN [opened |-> <<>>, parsed |-> <<>>, options |-> NoOptions, Return |-> 0]
    ELSE LET scan == ScanArguments(args)
         IN  IF scan.filename = <<>>
             THEN [opened |-> <<>>, parsed |-> <<>>, options |-> scan.options, Return |-> 0]
             ELSE IF ~env.open
             THEN [opened |-> <<scan.filename>>, parsed |-> <<>>, options |-> scan.options,
                   Return |-> 0]
             ELSE IF ~env.wellFormed
             THEN [opened |-> <<scan.filename>>, parsed |-> <<>>, options |-> scan.options,
                   Return |-> 0]
             ELSE [opened |-> <<scan.filename>>, parsed |-> <<scan.filename>>,
                   options |-> scan.options,
                   Return |-> IF env.parseOk THEN 1 ELSE InitialReturn]

\* main has been started with some arguments; whether the file opens, holds
\* well formed XML and is accepted by the parser is up to the environment
InitMain ==
    /\ arguments \in UNION { [1..n -> Arguments] : n \in 0..MaxArgs }
    /\ disk \in [open : BOOLEAN, wellFormed : BOOLEAN, parseOk : BOOLEAN]
    /\ opened = <<>>
    /\ parsed = <<>>
    /\ options = NoOptions
    /\ Return = -1
    /\ \E el \in PacketElements :
           /\ el.array = "" /\ el.variableArray = "" /\ el.dependsOn = ""
           /\ el.structureInterface = "" /\ el.parameterInterface = ""
           /\ Constructed(el)
    /\ EnumIdle

\* main, from its first line to its return
Main ==
    /\ Return = -1
    /\ LET run == RunMain(arguments, disk)
       IN  /\ opened' = run.opened
           /\ parsed' = run.parsed
           /\ options' = run.options
           /\ Return' = run.Return
    /\ UNCHANGED <<arguments, disk>>
    /\ UNCHANGED <<packetVars, enumVars>>

NextMain == Main

SpecMain == InitMain /\ [][NextMain]_vars

-----------------------------------------------------------------------------
(* One ProtocolPacket object parsing one packet after another into one file *)

\* The children are kept over the clear
ClearedEncodables_Kept(encs) == encs

\* ProtocolStructure::clear: the children are deleted and the list is emptied
ClearedEncodables(encs) == <<>>

\* The children of the packets of a module: a bitfield, a field with a
\* default, an array of fields
ModuleChildren ==
    { Child(TRUE, FALSE, FALSE, "", TRUE, "", "", ""),
      Child(TRUE, FALSE, FALSE, "", FALSE, "0", "", ""),
      Child(TRUE, FALSE, FALSE, "2", FALSE, "", "", "") }

ParseModuleChild == ParseChildFrom(ModuleChildren)

\* The Packet elements of a module: one without ID and without enumeration,
\* one with the ID 0x01 and the enumeration E
ModuleElements ==
    {el \in ElementsWithEnum :
        /\ el.name = <<"P">> /\ el.ID \in {<<>>, <<"0", "x", "0", "1">>}
        /\ (el.ID = <<>>) <=> (el.Enum = <<>>)
        /\ el.array = "" /\ el.variableArray = "" /\ el.dependsOn = ""
        /\ el.structureInterface = "" /\ el.parameterInterface = ""}

\* What the protocol supports: each helper file is needed by one of the two
Supports ==
    { [specialFloat |-> TRUE, bitfield |-> FALSE],
      [specialFloat |-> FALSE, bitfield |-> TRUE] }

\* The caller hands the next Packet element to the object, and parse begins
\* with clear: ProtocolStructure::clear empties the list of children and
\* resets the flags, ProtocolPacket::clear empties the id
ParseNext ==
    /\ pc = "done"
    /\ ~reused
    /\ \E el \in ModuleElements : e' = el
    /\ xml' = <<>>
    /\ encodables' = ClearedEncodables(encodables)
    /\ prevEncodable' = 0
    /\ bitfields' = FALSE
    /\ needsIterator' = FALSE
    /\ defaults' = FALSE
    /\ id' = <<>>
    /\ enumList' = <<>>
    /\ reused' = TRUE
    /\ pc' = "start"
    /\ UNCHANGED <<array, variableArray, dependsOn, encodedLength, diag, header, source,
                   name, headerFile, sourceFile, support>>
    /\ UNCHANGED <<enumVars, mainVars>>

InitModule ==
    \E el \in ModuleElements, sup \in Supports :
        ConstructedWith(el, sup) /\ EnumIdle /\ MainIdle

NextModule ==
    \/ ParseAttributes \/ ParseModuleChild \/ SumLength \/ PacketClear \/ Emit
    \/ Flush \/ ClearWriters \/ ParseNext

\* Two calls of ProtocolPacket::parse on one object, into one module file
SpecModule == InitModule /\ [][NextModule]_vars

-----------------------------------------------------------------------------
(* ProtocolPacket::parse of packets with nested structures                  *)

\* A field and a Structure element without attributes
AField == Child(TRUE, FALSE, FALSE, "", FALSE, "", "", "")
AStructure == Child(FALSE, FALSE, FALSE, "", FALSE, "", "", "")

\* The children of the packets: a field, a structure without children, a
\* structure of one field, and a structure of a structure and a field
NestedChildren ==
    { AField,
      AStructure,
      WithChildren(AStructure, <<Called(AField, "x")>>),
      WithChildren(AStructure,
                   <<Called(WithChildren(AStructure, <<Called(AField, "x")>>), "y"),
                     Called(AField, "z")>>) }

ParseNestedChild == ParseChildFrom(NestedChildren)

\* The Packet elements: every choice of the interfaces
NestedElements ==
    {el \in Elements :
        /\ el.name = <<"P">> /\ el.ID = <<>>
        /\ el.array = "" /\ el.variableArray = "" /\ el.dependsOn = ""}

InitNested == \E el \in NestedElements : Constructed(el) /\ EnumIdle /\ MainIdle

NextNested ==
    \/ ParseAttributes \/ ParseNestedChild \/ SumLength \/ PacketClear \/ Emit
    \/ Flush \/ ClearWriters

SpecNested == InitNested /\ [][NextNested]_vars

-----------------------------------------------------------------------------
(* Properties of ProtocolStructure::parseChildren, under SpecStructure      *)

\* parseChildren has returned
ChildrenParsed == pc = "parsed"

\* The diagnostic msg was printed for the field called n
Printed(n, msg) == \E k \in 1..Len(diag) : diag[k] = <<n, msg>>

\* The sibling j is a primitive field, in memory and encoded
PrimitiveInMemoryEncoded(j) ==
    /\ isPrimitive(encodables[j])
    /\ ~isNotInMemory(encodables[j])
    /\ ~isNotEncoded(encodables[j])

\* C1: after parseChildren, an encoded child that still has a dependsOn names a
\* sibling declared before it that is a primitive field, in memory and encoded;
\* otherwise its dependsOn is cleared with a diagnostic; a bitfield child never
\* keeps a dependsOn.
C1_DependsOnPriorPrimitive ==
    ChildrenParsed =>
        \A i \in 1..Len(encodables) :
            ~isNotEncoded(encodables[i]) =>
                /\ encodables[i].dependsOn # "" =>
                       \E j \in 1..(i - 1) :
                           /\ encodables[j].name = encodables[i].dependsOn
                           /\ PrimitiveInMemoryEncoded(j)
                /\ (xml[i].dependsOn # "" /\ encodables[i].dependsOn = "") =>
                       \/ Printed(encodables[i].name, "dependsOn ignored")
                       \/ Printed(encodables[i].name, "bitfields cannot use dependsOn")
                /\ isBitfield(encodables[i]) => encodables[i].dependsOn = ""

\* C2: after parseChildren, an encoded child that still has a variableArray
\* names a sibling declared before it that is a primitive or primitive array,
\* in memory and encoded (never a structure); otherwise its variableArray is
\* cleared with a diagnostic.
C2_VariableArrayPriorPrimitive ==
    ChildrenParsed =>
        \A i \in 1..Len(encodables) :
            ~isNotEncoded(encodables[i]) =>
                /\ encodables[i].variableArray # "" =>
                       \E j \in 1..(i - 1) :
                           /\ encodables[j].name = encodables[i].variableArray
                           /\ PrimitiveInMemoryEncoded(j)
                /\ (xml[i].variableArray # "" /\ encodables[i].variableArray = "") =>
                       Printed(encodables[i].name, "variable length array ignored")

\* C3: after parseChildren, every child that still carries a default value is
\* followed only by children that carry a default value.
C3_DefaultsAreSuffix ==
    ChildrenParsed =>
        \A i \in 1..Len(encodables) : \A j \in (i + 1)..Len(encodables) :
            isDefault(encodables[i]) => isDefault(encodables[j])

\* The encoded children, in order
EncodedChildren == SelectSeq(encodables, LAMBDA c : ~isNotEncoded(c))

\* C4: after parseChildren, in the order of the encoded children, a bitfield is
\* marked as terminator exactly when it is the last one of its run, that is when
\* no bitfield follows it immediately.
C4_OneTerminatorPerRun ==
    ChildrenParsed =>
        LET enc == EncodedChildren
        IN  \A k \in 1..Len(enc) :
                isBitfield(enc[k]) =>
                    (enc[k].terminatesBitfield <=>
                        (k = Len(enc) \/ ~isBitfield(enc[k + 1])))

\* C4 witness: a run of two bitfields with a child that is not encoded between
\* them; the first is no terminator and the second is
C4_Witness ==
    /\ ChildrenParsed
    /\ Len(encodables) = 3
    /\ isBitfield(encodables[1]) /\ ~encodables[1].terminatesBitfield
    /\ isNotEncoded(encodables[2])
    /\ isBitfield(encodables[3]) /\ encodables[3].terminatesBitfield

\* C12: the minimum encoded length of a parsed structure, and of each of its
\* children, is at most its maximum encoded length.
C12_MinAtMostMax ==
    pc = "parsed" =>
        /\ encodedLength.minEncodedLength <= encodedLength.maxEncodedLength
        /\ \A i \in 1..Len(encodables) :
               encodables[i].encodedLength.minEncodedLength
                   <= encodables[i].encodedLength.maxEncodedLength

\* A structure with a variable array among several children: its minimum is
\* positive and below its maximum
C12_Witness ==
    /\ pc = "parsed"
    /\ Len(encodables) >= 2
    /\ \E i \in 1..Len(encodables) : encodables[i].variableArray # ""
    /\ \E i \in 1..Len(encodables) : encodables[i].dependsOn # ""
    /\ 0 < encodedLength.minEncodedLength
    /\ encodedLength.minEncodedLength < encodedLength.maxEncodedLength

-----------------------------------------------------------------------------
(* Properties of ProtocolPacket::parse, under SpecPacket                    *)

\* ProtocolPacket::parse has written the functions of the packet
Emitted == pc = "emitted"

\* The function called fn was written to the source file
InSource(fn) == \E k \in 1..Len(source) : source[k].fn = fn

\* The bodies of the packet decode functions written to the source file
DecodeBodies ==
    {source[k].body : k \in {n \in 1..Len(source) :
                                 source[n].fn \in {"decodePacketStructure", "decodePacket"}}}

IdCheck == <<"if packet ID differs return 0", "">>
SizeCheck == <<"if numBytes < MinDataLength return 0", "">>
ShortCheck == <<"if numBytes < byteindex return 0", "">>
ReturnOne == <<"return 1", "">>

\* Both checks come before the first decode of a field, each returns 0, and the
\* function returns 1 at its end and nowhere else
ChecksBeforeDecode(body) ==
    /\ \E p, q \in 1..Len(body) :
           /\ body[p] = IdCheck
           /\ body[q] = SizeCheck
           /\ \A d \in 1..Len(body) : body[d][1] = "decode" => (p < d /\ q < d)
    /\ body[Len(body)] = ReturnOne
    /\ \A k \in 1..(Len(body) - 1) :
           body[k] \in {IdCheck, SizeCheck, ShortCheck} \/ body[k][1] \in {"setdefault", "decode"}

\* C5 as claimed: every emitted packet decode function, with or without encoded
\* fields, holds the packet ID check and the numBytes check before any decode.
C5_ChecksInEveryDecode ==
    Emitted => \A body \in DecodeBodies : ChecksBeforeDecode(body)

\* C5 amended: in every emitted decode function of a packet with an encoded
\* field, the packet ID check and the numBytes check come before any decode of a
\* field, each returns 0, and the function ends with its only return 1; the
\* decode function of a packet without encoded fields holds the packet ID check
\* alone, returning 0 when it fails and else 1.
C5_ChecksBeforeDecode ==
    Emitted =>
        \A body \in DecodeBodies :
            IF getNumberOfEncodes(encodables) > 0
            THEN ChecksBeforeDecode(body)
            ELSE /\ body[1] = IdCheck
                 /\ \A k \in 1..Len(body) : body[k] # SizeCheck /\ body[k][1] # "decode"
                 /\ body[Len(body)] = <<"else return 1", "">>

\* C5 witness: both interfaces are emitted for a packet with two encoded fields
C5_Witness ==
    /\ Emitted
    /\ InSource("decodePacketStructure") /\ InSource("decodePacket")
    /\ getNumberOfEncodes(encodables) >= 2
    /\ \A body \in DecodeBodies : \E d \in 1..Len(body) : body[d][1] = "decode"

\* C6: in every emitted decode function of a packet with default fields, there
\* is a set to default assignment for every child and each of them comes before
\* the decode of any child.
C6_DefaultsBeforeDecode ==
    (Emitted /\ defaults) =>
        \A body \in DecodeBodies :
            /\ \A i \in 1..Len(encodables) :
                   \E p \in 1..Len(body) : body[p] = <<"setdefault", encodables[i].name>>
            /\ \A p, d \in 1..Len(body) :
                   (body[p][1] = "setdefault" /\ body[d][1] = "decode") => p < d

\* C6 witness: a packet with a field followed by a default field, both decoded
C6_Witness ==
    /\ Emitted /\ defaults
    /\ Len(encodables) >= 2
    /\ ~isDefault(encodables[1]) /\ ~isNotEncoded(encodables[1])
    /\ isDefault(encodables[2])
    /\ DecodeBodies # {}
    /\ \A body \in DecodeBodies :
           \E p, d \in 1..Len(body) : body[p][1] = "setdefault" /\ body[d][1] = "decode"

\* The structure interface, the parameter interface were written to the source
StructureInterfaceEmitted ==
    InSource("encodePacketStructure") /\ InSource("decodePacketStructure")
ParameterInterfaceEmitted == InSource("encodePacket") /\ InSource("decodePacket")
NoStructureInterface ==
    ~InSource("encodePacketStructure") /\ ~InSource("decodePacketStructure")
NoParameterInterface == ~InSource("encodePacket") /\ ~InSource("decodePacket")

\* C7: with neither structureInterface nor parameterInterface true, a packet
\* with two or more children gets the structure interface only, a packet with no
\* or one child the parameter interface only; every packet gets at least one.
C7_DefaultInterface ==
    Emitted =>
        /\ (e.structureInterface # "true" /\ e.parameterInterface # "true") =>
               IF Len(encodables) >= 2
               THEN StructureInterfaceEmitted /\ NoParameterInterface
               ELSE ParameterInterfaceEmitted /\ NoStructureInterface
        /\ StructureInterfaceEmitted \/ ParameterInterfaceEmitted

\* C7 witness: no guidance and two children
C7_Witness ==
    /\ Emitted
    /\ e.structureInterface # "true" /\ e.parameterInterface # "true"
    /\ Len(encodables) = 2
    /\ StructureInterfaceEmitted

\* C8 as claimed: with structureInterface true and parameterInterface not true
\* the structure interface is emitted and the parameter interface is not,
\* whatever the number of children.
C8_StructureInterfaceAlways ==
    (Emitted /\ e.structureInterface = "true" /\ e.parameterInterface # "true") =>
        StructureInterfaceEmitted /\ NoParameterInterface

\* C8 amended: with structureInterface true and parameterInterface not true, a
\* packet with at least one child gets the structure interface and not the
\* parameter interface; a packet without children gets the parameter interface
\* and not the structure interface.
C8_StructureInterfaceWithChildren ==
    (Emitted /\ e.structureInterface = "true" /\ e.parameterInterface # "true") =>
        IF Len(encodables) >= 1
        THEN StructureInterfaceEmitted /\ NoParameterInterface
        ELSE ParameterInterfaceEmitted /\ NoStructureInterface

\* C8 witness: the structure interface asked for a packet with one child
C8_Witness ==
    /\ Emitted /\ e.structureInterface = "true" /\ e.parameterInterface # "true"
    /\ Len(encodables) = 1
    /\ StructureInterfaceEmitted

\* The diagnostic msg was printed for the packet itself
PacketPrinted(msg) == Printed("", msg)

\* C9: after ProtocolPacket::parse the array, variableArray and dependsOn of the
\* packet are empty, and a diagnostic was printed for each kind of attribute the
\* element declared.
C9_PacketAttributesCleared ==
    Emitted =>
        /\ array = "" /\ variableArray = "" /\ dependsOn = ""
        /\ e.array # "" => PacketPrinted("packets cannot be an array")
        /\ e.variableArray # "" =>
               \/ PacketPrinted("packets cannot be an array")
               \/ PacketPrinted("must specify array length to specify variable array length")
        /\ e.dependsOn # "" =>
               \/ PacketPrinted("dependsOn makes no sense for a packet")
               \/ PacketPrinted("variable length arrays cannot also use dependsOn")

\* C9 witness: a packet that declares array, variableArray and dependsOn
C9_Witness ==
    /\ Emitted
    /\ e.array # "" /\ e.variableArray # "" /\ e.dependsOn # ""
    /\ Len(diag) >= 2

\* The i-th child as the element would construct it without the variableArray
\* or dependsOn that parseChildren cleared
CleanChild(i) ==
    Child(xml[i].prim, xml[i].notEncoded, xml[i].notInMemory, xml[i].array,
          xml[i].bitfield, xml[i].defaultValue,
          IF encodables[i].variableArray = "" THEN "" ELSE xml[i].variableArray,
          IF encodables[i].dependsOn = "" THEN "" ELSE xml[i].dependsOn)

\* parseChildren over the first n cleaned children, from the constructed state
RECURSIVE ParseCleanChildren(_)
ParseCleanChildren(n) ==
    IF n = 0
    THEN [encodables |-> <<>>, prevEncodable |-> 0, bitfields |-> FALSE,
          needsIterator |-> FALSE, defaults |-> FALSE, diag |-> <<>>]
    ELSE ParseChild(ParseCleanChildren(n - 1), CleanChild(n))

\* The encoded length of the packet for the same XML without the offending
\* attributes
CleanLength == StructureLength(ParseCleanChildren(Len(xml)).encodables, "", "", "")

\* An array, variableArray or dependsOn was cleared, on the packet or on a child
AttributeCleared ==
    \/ e.array # "" \/ e.variableArray # "" \/ e.dependsOn # ""
    \/ \E i \in 1..Len(xml) :
           \/ xml[i].variableArray # encodables[i].variableArray
           \/ xml[i].dependsOn # encodables[i].dependsOn

\* C10: whenever an offending array, variableArray or dependsOn was cleared, the
\* encodedLength of the packet, and the value get<Prefix><Name>MinDataLength
\* returns, are those computed for the same XML with the attribute absent.
C10_LengthAsIfAttributeAbsent ==
    (Emitted /\ AttributeCleared) =>
        /\ encodedLength = CleanLength
        /\ \E k \in 1..Len(source) :
               /\ source[k].fn = "getMinDataLength"
               /\ source[k].body = << <<"return", CleanLength.minEncodedLength>> >>

-----------------------------------------------------------------------------
(* Properties of ProtocolPacket::createUtilityFunctions, under SpecUtility  *)

\* The value the emitted packet ID function returns
ReturnedID ==
    LET k == CHOOSE k \in 1..Len(source) : source[k].fn = "getPacketID"
    IN  source[k].body[1][2]

\* The packet ID function was emitted, with a single return statement
PacketIDEmitted ==
    /\ \E k \in 1..Len(source) : source[k].fn = "getPacketID"
    /\ \A k \in 1..Len(source) :
           source[k].fn = "getPacketID" =>
               Len(source[k].body) = 1 /\ source[k].body[1][1] = "return"

\* UPPER_SNAKE_NAME: upper case, with an underscore where a capital follows a
\* small letter
UpperSnake(str) ==
    LET F[k \in 0..Len(str)] ==
            IF k = 0 THEN <<>>
            ELSE F[k - 1]
                 \o (IF k > 1 /\ IsUpper(str[k]) /\ IsLower(str[k - 1])
                     THEN <<"_">> ELSE <<>>)
                 \o <<Upper(str[k])>>
    IN  F[Len(str)]

\* C11 as stated: the packet ID function returns the ID attribute when it is
\* not empty, and otherwise the packet name in UPPER_SNAKE_NAME form.
C11_IdOrUpperSnakeName ==
    Emitted =>
        /\ PacketIDEmitted
        /\ ReturnedID = (IF e.ID # <<>> THEN e.ID ELSE UpperSnake(name))

\* C11: the packet ID function returns the ID attribute when it is not empty,
\* and otherwise the packet name with every small letter made a capital and
\* nothing inserted: as many characters as the name, none of them a small
\* letter, each the capital of the character of the name at its place.
C11_IdOrUpperCaseName ==
    Emitted =>
        /\ PacketIDEmitted
        /\ e.ID # <<>> => ReturnedID = e.ID
        /\ e.ID = <<>> =>
               /\ Len(ReturnedID) = Len(name)
               /\ \A k \in 1..Len(name) :
                      /\ ~IsLower(ReturnedID[k])
                      /\ ReturnedID[k] = name[k] \/ IsLower(name[k])
                      /\ IsLower(name[k]) =>
                             \E j \in DOMAIN LowerCase :
                                 LowerCase[j] = name[k] /\ UpperCase[j] = ReturnedID[k]
        /\ ReturnedID = id

\* A packet named EchoReply without ID has ECHOREPLY as its ID
C11_Witness ==
    /\ Emitted
    /\ e.ID = <<>>
    /\ e.name = <<"E", "c", "h", "o", "R", "e", "p", "l", "y">>
    /\ PacketIDEmitted
    /\ ReturnedID = <<"E", "C", "H", "O", "R", "E", "P", "L", "Y">>

-----------------------------------------------------------------------------
(* Properties of EnumCreator, under SpecEnum                                *)

\* parse has returned
EnumParsed == epc \in {"parsed", "replaced", "reparsed"}

\* The types of the members of an EnumCreator
EnumTypeOK ==
    /\ Len(nameList) = Len(valueList)
    /\ Len(nameList) = Len(commentList)
    /\ Len(nameList) = Len(numberList)
    /\ minbitwidth \in 0..32

\* A string of decimal digits
IsNumber(str) ==
    /\ str # <<>>
    /\ \A k \in 1..Len(str) : DigitValue(str[k]) < 10

\* The number a string of decimal digits stands for
DecimalValue(str) ==
    LET F[k \in 0..Len(str)] == IF k = 0 THEN 0 ELSE F[k - 1] * 10 + DigitValue(str[k])
    IN  F[Len(str)]

\* The largest member of a non-empty set of integers
Largest(S) == CHOOSE m \in S : \A n \in S : n <= m

\* The numeric values resolved for the enumerators
KnownValues ==
    { DecimalValue(numberList[k]) : k \in {i \in 1..Len(numberList) : IsNumber(numberList[i])} }

\* computeNumberList has run over at least one enumerator
NumbersComputed == EnumParsed /\ nameList # <<>>

\* C13 as stated: minbitwidth is 8 when no numeric value is known, as for
\* [A, B=SOMEWHERE, C], and ceil(log2(max + 1)) of the largest numeric value
\* when every enumerator resolved to a number.
C13_LargestValueOrEight ==
    NumbersComputed =>
        /\ KnownValues = {} => minbitwidth = DefaultBitWidth
        /\ valueList = << <<>>, <<"S">>, <<>> >> => minbitwidth = DefaultBitWidth
        /\ (\A k \in 1..Len(numberList) : IsNumber(numberList[k])) =>
               minbitwidth = CeilLog2(Largest(KnownValues) + 1)

PlusAt(str) ==
    IF Contains(str, <<" ", "+", " ">>)
    THEN CHOOSE k \in 1..(Len(str) - 2) :
             /\ SubSeq(str, k, k + 2) = <<" ", "+", " ">>
             /\ \A j \in (k + 1)..(Len(str) - 2) : SubSeq(str, j, j + 2) # <<" ", "+", " ">>
    ELSE 0

\* The value of the running counter an entry of the number list shows: the
\* number, the offset after the base, 0 for a base alone
CounterOf(str) ==
    IF IsNumber(str) THEN DecimalValue(str)
    ELSE IF Head(str) = "-" /\ IsNumber(Tail(str)) THEN 0 - DecimalValue(Tail(str))
    ELSE IF PlusAt(str) > 0 THEN DecimalValue(SubSeq(str, PlusAt(str) + 3, Len(str)))
    ELSE 0

RECURSIVE RenderUInt(_)
RenderUInt(u) ==
    IF u.hi = 0 /\ u.lo < 10 THEN <<HexDigits[u.lo + 1]>>
    ELSE LET t == (u.hi % 10) * Half + u.lo
         IN  RenderUInt([hi |-> u.hi \div 10, lo |-> t \div 10])
                 \o <<HexDigits[(t % 10) + 1]>>

\* The decimal digits of the next number
RECURSIVE NextDecimal(_)
NextDecimal(str) ==
    IF str = <<>> THEN <<"1">>
    ELSE LET front == SubSeq(str, 1, Len(str) - 1)
             last  == str[Len(str)]
         IN  IF last = "9" THEN NextDecimal(front) \o <<"0">>
             ELSE front \o <<HexDigits[DigitValue(last) + 2]>>

\* The walk over the value list as C15 describes it, with the counter written
\* in decimal digits; <<>> is the counter before the first entry
RECURSIVE DescribedLoop(_, _)
DescribedLoop(vals, k) ==
    IF k = 0 THEN [counter |-> <<>>, base |-> <<>>, list |-> <<>>]
    ELSE LET p == DescribedLoop(vals, k - 1)
             u == ParseNumber(vals[k])
         IN  IF vals[k] = <<>>
             THEN LET c == IF p.counter = <<>> THEN <<"0">> ELSE NextDecimal(p.counter)
                  IN  [counter |-> c, base |-> p.base,
                       list |-> Append(p.list, IF p.base = <<>> THEN c
                                               ELSE p.base \o <<" ", "+", " ">> \o c)]
             ELSE IF u.ok
             THEN [counter |-> RenderUInt(u), base |-> <<>>,
                   list |-> Append(p.list, RenderUInt(u))]
             ELSE [counter |-> <<"0">>, base |-> vals[k], list |-> Append(p.list, vals[k])]

\* C15 as stated: the number list is the one the walk from left to right gives:
\* an empty raw value is the previous counter plus one, as a number or as
\* "base + offset"; a raw value that parses as a number resets the counter to
\* it and clears the base; a raw value that does not parse is the new base.
C15_NumberListAsDescribed ==
    EnumParsed => numberList = DescribedLoop(valueList, Len(valueList)).list

\* The text with every name of an enumerator replaced by its number
EveryNameReplaced(txt, names, nums) ==
    LET F[i \in 0..Len(names)] ==
            IF i = 0 THEN txt
            ELSE IF names[i] = <<>> THEN F[i - 1]
            ELSE Replace(F[i - 1], names[i], nums[i])
    IN  F[Len(names)]

\* C16 as stated: replaceEnumerationNameWithValue replaces every occurrence of
\* the name of any enumerator by its entry of the number list, whatever the
\* form of its value.
C16_EveryNameReplaced ==
    epc = "replaced" => replaced = EveryNameReplaced(text, nameList, numberList)

\* C17: parse of an Enum element without Value children returns an empty
\* string and leaves the name, value, number and comment lists empty.
C17_NoValuesNoDeclaration ==
    (EnumParsed /\ values = <<>>) =>
        /\ output = <<>>
        /\ nameList = <<>>
        /\ valueList = <<>>
        /\ numberList = <<>>
        /\ commentList = <<>>

\* An EnumCreator that had replaced A by 10 has parsed an element without
\* Value children
C17_Witness ==
    /\ epc = "reparsed"
    /\ values = <<>>
    /\ text = <<"A">>
    /\ replaced = <<"1", "0">>
    /\ output = <<>>
    /\ nameList = <<>>

-----------------------------------------------------------------------------
(* Properties of main, under SpecMain                                       *)

\* main has returned
Returned == Return # -1

\* C18 as stated: main returns 1 exactly when the protocol file was opened, was
\* well formed XML and parser.parse reported success, and returns 0 otherwise.
C18_OneExactlyOnSuccess ==
    Returned =>
        /\ Return \in {0, 1}
        /\ Return = 1 <=> (parsed # <<>> /\ disk.parseOk)

\* No argument ends in .xml
NoXmlArgument == \A i \in 1..Len(arguments) : ~EndsWith(arguments[i], DotXml)

\* C19 as stated: when no argument ends in .xml, main opens and parses no file
\* and returns 0.
C19_XmlArgumentRequired ==
    (Returned /\ NoXmlArgument) =>
        /\ opened = <<>>
        /\ parsed = <<>>
        /\ Return = 0

\* C19: when no argument ends in .xml, main takes its first argument, whatever
\* it is, as the protocol file: if it is not empty it is opened, and handed to
\* the parser if it opens and is well formed; main returns 0 exactly when no
\* file went to the parser, and without arguments nothing is opened.
C19_FirstArgumentIsTheFile ==
    (Returned /\ NoXmlArgument) =>
        /\ opened = IF Len(arguments) = 0 \/ arguments[1] = <<>> THEN <<>>
                    ELSE <<arguments[1]>>
        /\ parsed = IF opened # <<>> /\ disk.open /\ disk.wellFormed THEN opened ELSE <<>>
        /\ Return = 0 <=> parsed = <<>>

\* ProtoGen p.txt out: p.txt is opened and parsed, and main returns 1
C19_Witness ==
    /\ Returned
    /\ arguments = << <<"p", ".", "t", "x", "t">>, <<"o", "u", "t">> >>
    /\ opened = << <<"p", ".", "t", "x", "t">> >>
    /\ parsed = opened
    /\ options.path = <<"o", "u", "t">>
    /\ Return = 1

-----------------------------------------------------------------------------
(* Properties of the writers of ProtocolPacket::parse, under SpecPacket     *)

\* parse has returned
PacketDone == pc = "done"

\* What parse wrote for the packet
WrittenSource ==
    SourcePreamble(FALSE, support) \o EmitSource(e, encodables, defaults, encodedLength, id)
WrittenHeader ==
    HeaderPreamble(FALSE) \o EnumOutputs(enumList) \o EmitDeclaration(e, encodables, name)
                          \o EmitHeader(e, encodables)

\* C20: when parse returns, whatever it printed and however many children the
\* packet has, the text of the packet is in the files on disk and both writer
\* buffers are empty: each buffer was flushed, and then cleared.
C20_FlushedThenCleared ==
    /\ PacketDone =>
           /\ header = <<>>
           /\ source = <<>>
           /\ headerFile = WrittenHeader
           /\ sourceFile = WrittenSource
           /\ sourceFile # <<>>
    /\ pc = "flushed" =>
           /\ headerFile = header
           /\ sourceFile = source

\* A packet without children whose array attribute was reported has returned
C20_Witness ==
    /\ PacketDone
    /\ encodables = <<>>
    /\ diag # <<>>
    /\ sourceFile # <<>>
    /\ headerFile # <<>>
    /\ source = <<>>
    /\ header = <<>>

-----------------------------------------------------------------------------
(* Properties of the decode loops of the packet functions, under SpecPacket *)

\* The places of a token in the body of a function
PlacesOf(body, token) == {p \in 1..Len(body) : body[p] = token}

\* The children ahead of the first default child: all of them when no child
\* has a default
AheadOfDefaults ==
    {j \in 1..Len(encodables) : \A k \in 1..j : ~isDefault(encodables[k])}

\* The minimum length of the packet is not its non default length
LengthsDiffer == encodedLength.minEncodedLength # encodedLength.nonDefaultEncodedLength

\* A decode function with encoded fields was written
DecodeWithFields == Emitted /\ getNumberOfEncodes(encodables) > 0

\* The length check, where there is one, stands behind the decodes of the
\* children ahead of the first default child and before the decodes of the
\* others
ShortCheckPlaced(body) ==
    \A p \in PlacesOf(body, ShortCheck) :
        \A j \in 1..Len(encodables) :
            \A d \in PlacesOf(body, <<"decode", encodables[j].name>>) :
                IF j \in AheadOfDefaults THEN d < p ELSE p < d

\* C21 as stated: the check of numBytes against byteindex is emitted exactly
\* when the lengths differ and there is a first default child whose index is
\* greater than 0, at most once, between the decodes of the children before the
\* first default child and the decode of that child.
C21_CheckWhenDefaultFollows ==
    DecodeWithFields =>
        \A body \in DecodeBodies :
            /\ Cardinality(PlacesOf(body, ShortCheck)) <= 1
            /\ PlacesOf(body, ShortCheck) # {} <=>
                   /\ LengthsDiffer
                   /\ \E j \in 2..Len(encodables) :
                          isDefault(encodables[j]) /\ (j - 1) \in AheadOfDefaults
            /\ ShortCheckPlaced(body)

\* C21: the check of numBytes against byteindex is emitted exactly when the
\* lengths differ and the first child has no default, whether or not a default
\* child follows; it is emitted at most once, behind the decodes of the
\* children ahead of the first default child (all the children when none has a
\* default) and before the decodes of the others.
C21_CheckWhenFirstLoopDecoded ==
    DecodeWithFields =>
        \A body \in DecodeBodies :
            /\ Cardinality(PlacesOf(body, ShortCheck)) <= 1
            /\ PlacesOf(body, ShortCheck) # {} <=> (LengthsDiffer /\ AheadOfDefaults # {})
            /\ ShortCheckPlaced(body)

\* A packet with a variable array between a field and a default field: the
\* check is in both decode functions, and a packet with lengths that differ
\* and no default child has it as well
C21_Witness ==
    /\ DecodeWithFields
    /\ LengthsDiffer
    /\ Len(encodables) = 3
    /\ encodables[2].variableArray # ""
    /\ isDefault(encodables[3])
    /\ AheadOfDefaults = {1, 2}
    /\ DecodeBodies # {}
    /\ \A body \in DecodeBodies : PlacesOf(body, ShortCheck) # {}

-----------------------------------------------------------------------------
(* Properties of the bitfields of parseChildren, under SpecBitfield         *)

\* C22: after parseChildren, in the order of the encoded children, a bitfield
\* that opens a run starts at bit 0, and a bitfield behind a bitfield starts at
\* the bit count the one before it ends at, its starting bit count plus its
\* number of bits.
C22_StartIsEndOfPrevious ==
    ChildrenParsed =>
        LET enc == EncodedChildren
        IN  \A k \in 1..Len(enc) :
                isBitfield(enc[k]) =>
                    enc[k].startingBitCount =
                        IF k > 1 /\ isBitfield(enc[k - 1])
                        THEN enc[k - 1].startingBitCount + enc[k - 1].encodedBits
                        ELSE 0

\* Bitfields of 3, 5 and 8 bits start at 0, 3 and 8
C22_Witness ==
    /\ ChildrenParsed
    /\ Len(encodables) = 3
    /\ \A k \in 1..3 : isBitfield(encodables[k])
    /\ <<encodables[1].encodedBits, encodables[2].encodedBits, encodables[3].encodedBits>>
           = <<3, 5, 8>>
    /\ <<encodables[1].startingBitCount, encodables[2].startingBitCount,
         encodables[3].startingBitCount>> = <<0, 3, 8>>

-----------------------------------------------------------------------------
(* Properties of the preamble of the module files, under SpecModule         *)

\* How often the line is in the header text
TimesInHeader(txt, line) == Cardinality({k \in 1..Len(txt) : txt[k] = line})

\* How often the helper file is included in the source text
TimesIncluded(txt, file) == Cardinality({k \in 1..Len(txt) : txt[k] = Include(file)})

HelperFiles ==
    {"fielddecode.h", "fieldencode.h", "scaleddecode.h", "scaledencode.h",
     "floatspecial.h", "bitfieldspecial.h"}

HeaderLines == {"file banner", "#include Protocol.h"}

\* C23: over the packets parsed into one module file, a parse writes the file
\* banner and the include of the protocol header only when the header writer
\* is not appending, and the includes of the helper files only when the source
\* writer is not appending, so that each of them is in its file at most once.
C23_PreambleOncePerFile ==
    /\ Emitted =>
           /\ \A line \in HeaderLines :
                  TimesInHeader(header, line) > 0 => ~isAppending(headerFile)
           /\ \A file \in HelperFiles :
                  TimesIncluded(source, file) > 0 => ~isAppending(sourceFile)
    /\ \A line \in HeaderLines : TimesInHeader(headerFile, line) <= 1
    /\ \A file \in HelperFiles : TimesIncluded(sourceFile, file) <= 1

\* A second packet was written behind the first one, whose banner and includes
\* stand once at the head of the files
C23_Witness ==
    /\ pc = "done"
    /\ reused
    /\ TimesInHeader(headerFile, "getPacketID") = 2
    /\ \A line \in HeaderLines : TimesInHeader(headerFile, line) = 1
    /\ TimesIncluded(sourceFile, "fielddecode.h") = 1
    /\ TimesIncluded(sourceFile, "floatspecial.h") = 1
    /\ TimesIncluded(sourceFile, "bitfieldspecial.h") = 0

-----------------------------------------------------------------------------
(* Properties of the declarations and functions of structures, under        *)
(* SpecNested                                                               *)

\* Where the line stands in the header
LinesOf(line) == {k \in 1..Len(header) : header[k] = line}

\* The line that closes the typedef of the type
ClosingOf(tn) == "}" \o tn \o ";"

\* The typedef of a structure with the children encs and the type name tn is
\* in the header exactly when the claim says so, as one block of the opening
\* line, one line for each child and the closing line, and behind the typedef
\* of every child that is a structure with children
DeclaredAsDescribed(encs, tn, alwaysCreate) ==
    /\ (LinesOf(ClosingOf(tn)) # {})
           <=> (Len(encs) > 1 \/ (alwaysCreate /\ Len(encs) >= 1))
    /\ \A p \in LinesOf(ClosingOf(tn)) :
           /\ p - Len(encs) - 1 \in LinesOf("typedef struct {")
           /\ \A i \in 1..Len(encs) :
                  (~isPrimitive(encs[i]) /\ Len(encs[i].encodables) > 0) =>
                      \E q \in LinesOf(ClosingOf(typeName(encs[i].name))) :
                          q < p - Len(encs) - 1
    /\ (LinesOf(ClosingOf(tn)) = {}) =>
           \A i \in 1..Len(encs) :
               (~isPrimitive(encs[i]) /\ Len(encs[i].encodables) > 0) =>
                   LinesOf(ClosingOf(typeName(encs[i].name))) # {}

\* C24: getStructureDeclaration(alwaysCreate) writes the declarations of the
\* children that are structures before the typedef of the structure itself,
\* and writes that typedef exactly when the structure has more than one child,
\* or alwaysCreate is true and it has at least one child; the packet is declared
\* with alwaysCreate as the structure interface is chosen, a child with TRUE.
C24_TypedefAfterChildren ==
    Emitted =>
        /\ DeclaredAsDescribed(encodables, typeName(Str(name)),
                               SelectInterface(e, Len(encodables)).structureFunctions)
        /\ \A i \in 1..Len(encodables) :
               ~isPrimitive(encodables[i]) =>
                   DeclaredAsDescribed(encodables[i].encodables,
                                       typeName(encodables[i].name), TRUE)

\* A packet of a single child, a structure of a structure and a field, without
\* the structure interface: the typedefs of y and of a, none of the packet
C24_Witness ==
    /\ Emitted
    /\ Len(encodables) = 1
    /\ ~isPrimitive(encodables[1])
    /\ Len(encodables[1].encodables) = 2
    /\ ~SelectInterface(e, 1).structureFunctions
    /\ LinesOf(ClosingOf("P_t")) = {}
    /\ \E q \in LinesOf(ClosingOf("y_t")) : \E p \in LinesOf(ClosingOf("a_t")) : q < p

\* The child is declared as a member in the header
DeclaredAsMember(c) == LinesOf(getDeclaration(c)) # {}

\* A function of the source calls the encode or the decode function of the child
CalledFor(code, c) ==
    \E k \in 1..Len(source) :
        \E n \in 1..Len(source[k].body) : source[k].body[n] = <<code, c.name>>

\* C26: for every child of a packet that is a structure, also one without
\* children of its own: when the output of the packet declares a member of the
\* type of the child, or calls the encode or decode function of that type, the
\* output holds the typedef of the child and the definitions of both functions.
C26_NestedTypeDefined ==
    Emitted =>
        \A i \in 1..Len(encodables) :
            LET c == encodables[i]
            IN  (/\ ~isPrimitive(c)
                 /\ DeclaredAsMember(c) \/ CalledFor("encode", c) \/ CalledFor("decode", c))
                    => /\ LinesOf(ClosingOf(typeName(c.name))) # {}
                       /\ InSource("encode" \o typeName(c.name))
                       /\ InSource("decode" \o typeName(c.name))

-----------------------------------------------------------------------------
(* Properties of the decode loops, under SpecPacket                         *)

\* The decodes of a body, in the order in which they are written
DecodesOf(body) == SelectSeq(body, LAMBDA token : token[1] = "decode")

\* The decode of every child, once, in the order of the declaration
DecodeOfEveryChild == [k \in 1..Len(encodables) |-> <<"decode", encodables[k].name>>]

\* C25: in every packet decode function with encoded fields, the decode of
\* each child is written exactly once and in the order of the declaration,
\* wherever the first default child is: no child is skipped or decoded twice
\* by the loop that stops at the first default child and the loop that
\* finishes the list.
C25_EveryChildDecodedOnce ==
    (Emitted /\ getNumberOfEncodes(encodables) > 0) =>
        \A body \in DecodeBodies : DecodesOf(body) = DecodeOfEveryChild

\* Three children, the first default child in the middle, and a decode function
\* written for them
C25_Witness ==
    /\ Emitted
    /\ Len(encodables) = 3
    /\ FirstDefault(encodables) = 1
    /\ isDefault(encodables[3])
    /\ \E body \in DecodeBodies : Len(DecodesOf(body)) = 3

-----------------------------------------------------------------------------
(* Properties of the prototypes of the packet functions, under SpecPacket   *)

\* The prototype of the function is in the buffer of the header writer
InHeader(fn) == \E k \in 1..Len(header) : header[k] = fn

PacketFunctions ==
    {"encodePacketStructure", "decodePacketStructure", "encodePacket", "decodePacket"}

\* C27: each public encode or decode function of a packet whose definition is
\* written to the source has its prototype written to the header in the same
\* parse, in the structure interface and in the parameter interface, also for
\* a packet that has children none of which is encoded.
C27_PrototypeForEveryDefinition ==
    Emitted => \A fn \in PacketFunctions : InSource(fn) => InHeader(fn)

-----------------------------------------------------------------------------
(* Properties of the replaced text as identifiers, under SpecEnum           *)

\* The characters of an identifier
IdentifierChars ==
    {"A", "B", "C", "P", "S", "_", "0", "1", "2", "3", "4", "5", "6", "7", "8", "9"}

\* The part stands in str at k as a whole identifier: no character of an
\* identifier before it or behind it
WholeAt(str, part, k) ==
    /\ k + Len(part) - 1 <= Len(str)
    /\ SubSeq(str, k, k + Len(part) - 1) = part
    /\ k > 1 => str[k - 1] \notin IdentifierChars
    /\ k + Len(part) <= Len(str) => str[k + Len(part)] \notin IdentifierChars

\* No name of the list is a whole identifier of the text
NoWholeName ==
    \A i \in 1..Len(nameList) :
        nameList[i] # <<>> => \A k \in 1..Len(text) : ~WholeAt(text, nameList[i], k)

\* C28: replaceEnumerationNameWithValue replaces a name only where it is a
\* whole identifier: a text in which the names occur only as parts of longer
\* identifiers, as A in P_A, is returned unchanged.
C28_WholeIdentifiersOnly ==
    (epc = "replaced" /\ NoWholeName) => replaced = text

-----------------------------------------------------------------------------
(* Properties of the diagnostics of revoked defaults, under SpecStructure   *)

\* How often the revocation of the default of the child j was printed
TimesRevoked(j) ==
    Cardinality({k \in 1..Len(diag) :
                     diag[k] = <<encodables[j].name, "default value ignored">>})

\* C29: after parseChildren, 'default value ignored, field is followed by
\* non-default' is printed once for each child whose default was revoked, and
\* not at all for a child that had no default value.
C29_OneDiagnosticPerRevokedDefault ==
    ChildrenParsed =>
        \A j \in 1..Len(encodables) :
            /\ xml[j].defaultValue = "" => TimesRevoked(j) = 0
            /\ (xml[j].defaultValue # "" /\ encodables[j].defaultValue = "")
                   => TimesRevoked(j) = 1

-----------------------------------------------------------------------------
(* Properties of a second parse on the same object, under SpecModule        *)

\* The children, the flags and the diagnostics of a freshly constructed object
\* after parseChildren of the first k children of the element
RECURSIVE FreshParse(_)
FreshParse(k) ==
    IF k = 0
    THEN [encodables |-> <<>>, prevEncodable |-> 0, bitfields |-> FALSE,
          needsIterator |-> FALSE, defaults |-> FALSE, diag |-> <<>>]
    ELSE ParseChild(FreshParse(k - 1), xml[k])

\* The members of a freshly constructed object after parse of the element
Fresh ==
    LET st == FreshParse(Len(xml))
        nm == ParsedName(e)
    IN  [encodables |-> st.encodables, bitfields |-> st.bitfields,
         needsIterator |-> st.needsIterator, defaults |-> st.defaults,
         enumList |-> parseEnumerations(e), id |-> PacketId(e, nm),
         header |-> HeaderPreamble(isAppending(headerFile))
                    \o EnumOutputs(parseEnumerations(e))
                    \o EmitDeclaration(e, st.encodables, nm)
                    \o EmitHeader(e, st.encodables),
         source |-> SourcePreamble(isAppending(sourceFile), support)
                    \o EmitSource(e, st.encodables, st.defaults,
                                  StructureLength(st.encodables, "", "", ""),
                                  PacketId(e, nm))]

\* C30: parse starts from a cleared model: after the parse of a second element
\* on one object, the children, the enumerations, the flags bitfields,
\* needsIterator and defaults, the id and the text written for the packet are
\* those of a freshly constructed object that parsed the second element;
\* nothing of the first element is left.
C30_SecondParseAsFresh ==
    (reused /\ Emitted) =>
        /\ encodables = Fresh.encodables
        /\ enumList = Fresh.enumList
        /\ bitfields = Fresh.bitfields
        /\ needsIterator = Fresh.needsIterator
        /\ defaults = Fresh.defaults
        /\ id = Fresh.id
        /\ header = Fresh.header
        /\ source = Fresh.source

\* The first element had an ID, an enumeration and children that set the three
\* flags; the second has one field with a default and nothing else
C30_Witness ==
    /\ reused
    /\ Emitted
    /\ TimesIncluded(sourceFile, "fielddecode.h") = 1
    /\ TimesInHeader(headerFile, "enum E") = 1
    /\ TimesInHeader(headerFile, "getPacketID") = 1
    /\ e.ID = <<>>
    /\ e.Enum = <<>>
    /\ Len(encodables) = 1
    /\ defaults
    /\ ~bitfields
    /\ ~needsIterator
    /\ id = <<"P">>
    /\ enumList = <<>>

====
